---- MODULE Spec2Model ----
(***************************************************************************)
(* Collection playthrough of getupyang/geo-guess-diy: the CollectionPlayer *)
(* component (both revisions kept in the repository), the CollectionHome   *)
(* entry screen, the localStorage progress record and the remote guesses   *)
(* and collection_attempts tables, for one (collection, user) pair.        *)
(***************************************************************************)
EXTENDS Integers, Sequences, FiniteSets, TLC

\* ------------------------------------------------------------------ bounds
NumGames == 2
MaxSessions == 2
MaxFailures == 1
MaxAttemptOps == 2
MaxAttemptRows == 3
\* users with an attempt row in the leaderboard's table
MaxUsers == 11
\* the score functions are run on every distance 0..MaxNear (metres) and on
\* FarStep, 2 * FarStep, ..., MaxFar * FarStep (just over half the Earth's circumference)
MaxNear == 260
MaxFar == 201
FarStep == 100000

\* distances (metres) the player's pin can be from the truth
Dists == {2000000}
\* distance of the guesses the user made outside the collection flow
HistDistance == 60
\* total_score of an attempt row left in the store by an earlier release
InitAttemptScores == {5000}

\* ------------------------------------------------------------- scoring
ScoreScale == 100000
PerfectScore == 5000
PerfectRadius == 50
DecayMeters == 2000000
\* exp(-1) * 10^8, rounded
ExpMinusOne == 36787944
ExpUnit == 100000000
SeriesTerms == 14

\* floor(a * b / c) and the remainder without leaving 32-bit range, one base-16
\* digit of b at a time (0 <= a, 0 <= b, 0 < c, 17 * c < 2^31)
RECURSIVE MulDivQR(_, _, _)
MulDivQR(a, b, c) ==
    IF b = 0 THEN [q |-> 0, r |-> 0]
    ELSE LET h    == MulDivQR(a, b \div 16, c)
             d    == b % 16
             rest == ((16 * h.r) % c) + d * (a % c)
         IN  [q |-> 16 * h.q + ((16 * h.r) \div c) + d * (a \div c) + (rest \div c),
              r |-> rest % c]

MulDiv(a, b, c) == MulDivQR(a, b, c).q

\* alternating series of t0 * exp(-r / DecayMeters) for 0 <= r < DecayMeters:
\* acc + sign * (term - term*x/k + term*x^2/(k(k+1)) - ...)
RECURSIVE ExpSeries(_, _, _, _, _)
ExpSeries(acc, sign, term, r, k) ==
    IF k > SeriesTerms \/ term = 0 THEN acc + sign * term
    ELSE ExpSeries(acc + sign * term, 0 - sign, MulDiv(term, r, DecayMeters * k), r, k + 1)

\* exp(-q) * 10^8, rounded, for q = 0, 1, 2, ...
ExpMinus ==
    <<ExpUnit, ExpMinusOne, 13533528, 4978707, 1831564, 673795, 247875, 91188, 33546,
      12341, 4540, 1670, 614>>

\* t * exp(-q)
ExpWhole(t, q) == IF q = 0 THEN t ELSE MulDiv(t, ExpMinus[q + 1], ExpUnit)

\* PerfectScore * exp(-dist / DecayMeters) in units of 1 / ScoreScale
ScaledExp(dist) ==
    ExpWhole(ExpSeries(0, 1, PerfectScore * ScoreScale, dist % DecayMeters, 1),
             dist \div DecayMeters)

\* (mutation) the value is truncated
Round_floor(v) == v \div ScoreScale

\* Math.round of a non-negative fixed-point value
Round(v) == (v + ScoreScale \div 2) \div ScoreScale

\* (mutation) the perfect hit is worth one point less
calcScore_lowPerfect(dist) ==
    IF dist < PerfectRadius THEN PerfectScore - 1 ELSE Round(ScaledExp(dist))

\* CollectionPlayer: dist < 50 ? 5000 : Math.round(5000 * Math.exp(-dist / 2000000))
calcScore(dist) ==
    IF dist < PerfectRadius THEN PerfectScore ELSE Round(ScaledExp(dist))

\* App: if (distance < 50) return 5000; return Math.round(5000 * Math.exp(-distance / 2000000))
calculateScore(distance) ==
    IF distance < PerfectRadius THEN PerfectScore ELSE Round(ScaledExp(distance))

\* Scores of the distances used by this model, evaluated once.
GuessDistances == Dists \cup {HistDistance}
scoreOf == [d \in GuessDistances |-> calcScore(d)]

\* --------------------------------------------------------- collection data
\* gameIds prop: the ordered challenge ids of the collection (index 0-based in the code)
gameIds == [i \in 1..NumGames |-> 10 + i]
GameIdSet == {gameIds[i] : i \in 1..NumGames}
GameIdAt(index) == gameIds[index + 1]

NoGame == 0
NoGuess == -1
NoTime == 0
SomeTime == 1

\* CollectionProgress (collectionId, userId and startedAt are fixed and left out)
FreshProgress ==
    [completedItems |-> <<>>, isCompleted |-> FALSE, totalScore |-> 0, completedAt |-> NoTime]

Item(gameId, score, distance) == [gameId |-> gameId, score |-> score, distance |-> distance]

RECURSIVE SumScores(_)
SumScores(items) ==
    IF items = <<>> THEN 0 ELSE items[1].score + SumScores(Tail(items))

HasItem(items, gameId) == \E i \in 1..Len(items) : items[i].gameId = gameId

\* ---------------------------------------------------------------- state
VARIABLES
    variant,      \* FALSE: components/CollectionPlayer.tsx, TRUE: the revision in unnamed/part_002
    mode,         \* App mode: "COLLECTION_HOME" or "COLLECTION_PLAY"
    home,         \* CollectionHome component state
    cur,          \* number of CollectionPlayer instances mounted so far; the last one may be live
    players,      \* per CollectionPlayer instance: React state, refs and requests in flight
    saved,        \* localStorage[coll_progress_<collection>_<user>]: <<>> or <<progress>>
    guesses,      \* remote table guesses, rows of this user for the collection's games
    attempts,     \* remote table collection_attempts, rows of this (collection, user)
    attemptOps,   \* submitCollectionAttempt calls in flight
    failures,     \* remote requests that have failed so far
    table,        \* remote table collection_attempts, the rows of one collection (all users)
    me,           \* currentUser.id of the leaderboard's viewer
    leaderboard,  \* CollectionHome's leaderboard state: <<>> or <<result of getCollectionLeaderboard>>
    stats,        \* <<>> or <<result of getCollectionStats / attachStats>>
    lastDistance, \* metres between the last scored guess and the truth (-1: none yet)
    lastScore,    \* <<>> or <<the score computed for lastDistance, and by which function>>
    gameMap,      \* the GameMap component mounted by CollectionPlayer: state, refs, props
    handed,       \* <<>> or <<the last coordinate passed to onLocationSelect, and the place clicked>>
    gesture,      \* the user's last gesture on the map
    myPlayedList, \* App's myPlayedList state: <<>> or <<result of getMyPlayedCollections>>
    collections,  \* remote table collections: rows [id, item_count]
    collection_items, \* remote table collection_items: rows [collection_id, game_id, order_index]
    createOps,    \* createCollection calls in flight
    returned      \* what the finished createCollection / getCollection calls returned

\* the state outside the play engine
mapVars == <<gameMap, handed, gesture>>

libVars == <<myPlayedList, collections, collection_items, createOps, returned>>

sideVars == <<table, me, leaderboard, stats, lastDistance, lastScore, mapVars, libVars>>

vars == <<variant, mode, home, cur, players, saved, guesses, attempts, attemptOps, failures,
          sideVars>>

\* no GameMap is mounted
NoMap == [mounted |-> FALSE]

MapIdle ==
    /\ gameMap = NoMap
    /\ handed = <<>>
    /\ gesture = "none"

\* nothing outside the play engine has been loaded
SideIdle ==
    /\ table = <<>>
    /\ me = 0
    /\ leaderboard = <<>>
    /\ stats = <<>>
    /\ lastDistance = -1
    /\ lastScore = <<>>
    /\ MapIdle
    /\ myPlayedList = <<>>
    /\ collections = {}
    /\ collection_items = {}
    /\ createOps = <<>>
    /\ returned = <<>>

Sessions == 1..MaxSessions

FreshHome ==
    [phase |-> "loading", isCompleted |-> FALSE, hasProgress |-> FALSE,
     startIndex |-> 0, myRecord |-> -1]

NoHome == [FreshHome EXCEPT !.phase = "unmounted"]

\* a CollectionPlayer instance as constructed (useState / useRef initial values)
NewPlayer(startIndex) ==
    [startIndex |-> startIndex,
     playState |-> "initializing", currentIndex |-> startIndex, currentGame |-> NoGame,
     userGuess |-> NoGuess, isSubmitting |-> FALSE,
     progressRef |-> FreshProgress, prefetchRef |-> NoGame, preAnsweredRef |-> << >>,
     initQuery |-> FALSE, fetches |-> {}, prefetches |-> {}, saves |-> <<>>]

NoPlayer == [NewPlayer(0) EXCEPT !.playState = "none"]

Mounted(s) == mode = "COLLECTION_PLAY" /\ s = cur

\* no request of the instance is in flight any more
Idle(p) == ~p.initQuery /\ p.fetches = {} /\ p.prefetches = {} /\ p.saves = <<>>

\* An unmounted component: React drops its state; its refs live on only as
\* long as a pending continuation can still reach them.
Unmount(p) ==
    LET q == [p EXCEPT !.playState = "unmounted", !.currentIndex = 0, !.currentGame = NoGame,
                       !.userGuess = NoGuess, !.isSubmitting = FALSE]
    IN  IF Idle(q) THEN [NoPlayer EXCEPT !.playState = "unmounted"] ELSE q

\* ------------------------------------------------- CollectionPlayer code
setPlayState(p, mtd, st) == IF mtd THEN [p EXCEPT !.playState = st] ELSE p

NewAttemptOp(s, totalScore, awaited) ==
    [inst |-> s, totalScore |-> totalScore, phase |-> "select", id |-> 0, awaited |-> awaited]

\* the result of running a handler up to its next await:
\* the instance, the progress written to localStorage (<<>>: none), the
\* submitCollectionAttempt calls started, and whether onComplete() was called
Outcome(p, save, ops, complete) ==
    [p |-> p, save |-> save, ops |-> ops, complete |-> complete]

\* (mutation) the next game is prefetched even when it is pre-answered
wantsPrefetch_always(p, index) == index + 1 < NumGames

\* loadQuestion: nextId && !preAnsweredRef.current.has(nextId)
wantsPrefetch(p, index) ==
    index + 1 < NumGames /\ GameIdAt(index + 1) \notin DOMAIN p.preAnsweredRef

\* loadQuestion, from "setCurrentGame(game)" on: show the challenge, prefetch the next one
showQuestion(p, game, index, mtd) ==
    LET shown == IF mtd
                 THEN [p EXCEPT !.currentGame = game, !.userGuess = NoGuess,
                                !.playState = "playing"]
                 ELSE p
    IN  IF wantsPrefetch(p, index)
        THEN [shown EXCEPT !.prefetches = @ \cup {GameIdAt(index + 1)}]
        ELSE shown

\* markCompleted: the "all done" block (final = {...p, isCompleted, completedAt})
finalOf(progress) == [progress EXCEPT !.isCompleted = TRUE, !.completedAt = SomeTime]

\* (mutation) the item is appended but its score is not added to the total
appendItem_keepTotal(progress, item) ==
    [progress EXCEPT !.completedItems = Append(@, item)]

\* progress with one more completed item
appendItem(progress, item) ==
    [progress EXCEPT !.completedItems = Append(@, item), !.totalScore = @ + item.score]

\* (mutation) the pre-answered branch never finds the game recorded
already_never(progress, gameId) == FALSE

\* loadQuestion: completedItems.some((i) => i.gameId === gameId)
already(progress, gameId) == HasItem(progress.completedItems, gameId)

\* loadQuestion(index) up to its first await
loadQuestion(p, s, index, mtd) ==
    IF index >= NumGames
    THEN IF variant
         THEN Outcome(p, <<>>, <<>>, TRUE)
         ELSE LET final == finalOf(p.progressRef)
              IN  Outcome([p EXCEPT !.progressRef = final], <<final>>,
                          <<NewAttemptOp(s, final.totalScore, TRUE)>>, FALSE)
    ELSE
    LET gameId == GameIdAt(index)
        p1 == setPlayState(p, mtd, "loading")
        hit == p1.prefetchRef = gameId   \* prefetchRef.current?.id === gameId
        p3 == [p1 EXCEPT !.prefetchRef = NoGame]
    IN  IF gameId \in DOMAIN p.preAnsweredRef
        THEN LET preAnswered == p.preAnsweredRef[gameId]
                 recorded == already(p.progressRef, gameId)
                 updated == appendItem(p.progressRef,
                                       Item(gameId, preAnswered.score, preAnswered.distance))
                 p2 == IF recorded THEN p1 ELSE [p1 EXCEPT !.progressRef = updated]
                 sv == IF recorded THEN <<>> ELSE <<updated>>
             IN  IF ~variant
                 THEN Outcome(setPlayState(p2, mtd, "historical"), sv, <<>>, FALSE)
                 ELSE LET q == [p2 EXCEPT !.prefetchRef = NoGame]
                      IN  IF hit
                          THEN Outcome(IF mtd THEN [q EXCEPT !.currentGame = p1.prefetchRef,
                                                             !.playState = "historical"]
                                              ELSE q, sv, <<>>, FALSE)
                          ELSE Outcome([q EXCEPT !.fetches = @ \cup
                                            {[index |-> index, hist |-> TRUE]}],
                                       sv, <<>>, FALSE)
        ELSE IF hit
             THEN Outcome(showQuestion(p3, p1.prefetchRef, index, mtd), <<>>, <<>>, FALSE)
             ELSE Outcome([p3 EXCEPT !.fetches = @ \cup {[index |-> index, hist |-> FALSE]}],
                          <<>>, <<>>, FALSE)

\* App: onComplete / onBack = setMode(COLLECTION_HOME); the instances that are
\* not (or no longer) rendered are unmounted
Commit(s, out) ==
    /\ mode' = IF out.complete THEN "COLLECTION_HOME" ELSE mode
    /\ home' = IF out.complete /\ mode = "COLLECTION_PLAY" THEN FreshHome ELSE home
    /\ players' = [t \in Sessions |->
                     LET q == IF t = s THEN out.p ELSE players[t]
                     IN  IF t <= cur /\ ~(mode' = "COLLECTION_PLAY" /\ t = cur)
                         THEN Unmount(q) ELSE q]
    /\ saved' = IF out.save = <<>> THEN saved ELSE out.save

\* a remote request may fail while the failure budget lasts
MayFail(ok) ==
    /\ ok \/ failures < MaxFailures
    /\ failures' = IF ok THEN failures ELSE failures + 1

\* --------------------------------------------------------- remote store
GuessRow(g) == [gameId |-> g.gameId, score |-> g.score, distance |-> g.distance]

RowsOf(gameId) == {guesses[i] : i \in {j \in 1..Len(guesses) : guesses[j].gameId = gameId}}

AnsweredIds == {guesses[i].gameId : i \in 1..Len(guesses)}

\* the Map built from the rows of the batch query: with several rows for a
\* game the last one in the (unordered) result wins
PreAnsweredMaps ==
    {m \in [AnsweredIds -> {guesses[i] : i \in 1..Len(guesses)}] :
        \A g \in AnsweredIds : m[g] \in RowsOf(g)}

\* .maybeSingle(): the row when there is exactly one, otherwise no data
maybeSingle(rows, ok) == IF ok /\ Len(rows) = 1 THEN <<rows[1]>> ELSE <<>>

\* a collection_attempts row; the rows present before the run carry OldAttemptId,
\* generateId() gives every inserted row an id of its own
AttemptRow(id, totalScore) == [id |-> id, total_score |-> totalScore]

OldAttemptId == 100

\* (mutation) the stored score is overwritten whatever it is
beatsExisting_always(totalScore, existing) == TRUE

\* submitCollectionAttempt: totalScore > existing.total_score
beatsExisting(totalScore, existing) == totalScore > existing.total_score

RECURSIVE MaxScore(_)
MaxScore(rows) ==
    IF rows = <<>> THEN -1
    ELSE LET m == MaxScore(Tail(rows))
         IN  IF rows[1].total_score > m THEN rows[1].total_score ELSE m

\* getCollectionLeaderboard(...).myRecord?.totalScore (-1: no record)
myRecordScore(rows, ok) == IF ok THEN MaxScore(rows) ELSE -1

\* ------------------------------------------------------- CollectionHome
\* CollectionHome.load, after getCollection: read the saved progress
HomeLoad ==
    /\ mode = "COLLECTION_HOME"
    /\ home.phase = "loading"
    /\ \E ok \in BOOLEAN :
         /\ MayFail(ok)
         /\ home' = IF ~ok THEN [home EXCEPT !.phase = "missing"]
                    ELSE IF saved # <<>> /\ saved[1].isCompleted
                    THEN [home EXCEPT !.isCompleted = TRUE, !.phase = "leaderboard"]
                    ELSE IF saved # <<>>
                    THEN [home EXCEPT !.hasProgress = TRUE,
                                      !.startIndex = Len(saved[1].completedItems),
                                      !.phase = "ready"]
                    ELSE [home EXCEPT !.phase = "ready"]
    /\ UNCHANGED <<sideVars, variant, mode, cur, players, saved, guesses, attempts, attemptOps>>

\* CollectionHome.load, the leaderboard of a completed player arrives
HomeLeaderboard ==
    /\ mode = "COLLECTION_HOME"
    /\ home.phase = "leaderboard"
    /\ \E ok \in BOOLEAN :
         /\ MayFail(ok)
         /\ home' = [home EXCEPT !.myRecord = myRecordScore(attempts, ok), !.phase = "ready"]
    /\ UNCHANGED <<sideVars, variant, mode, cur, players, saved, guesses, attempts, attemptOps>>

\* the start / continue button: App mounts a CollectionPlayer, whose mount
\* effect runs init() up to the batch query
OnStartPlay ==
    /\ mode = "COLLECTION_HOME"
    /\ home.phase = "ready"
    /\ ~home.isCompleted
    /\ cur < MaxSessions
    /\ cur' = cur + 1
    /\ mode' = "COLLECTION_PLAY"
    /\ home' = NoHome
    /\ players' = [players EXCEPT ![cur + 1] =
                      [NewPlayer(home.startIndex) EXCEPT
                          !.progressRef = IF saved # <<>> THEN saved[1] ELSE FreshProgress,
                          !.initQuery = TRUE]]
    /\ UNCHANGED <<sideVars, variant, saved, guesses, attempts, attemptOps, failures>>

\* App.handleHashChange: the user leaves and comes back to #collection/<id>
HandleHashChange ==
    /\ mode' = "COLLECTION_HOME"
    /\ home' = FreshHome
    /\ players' = [t \in Sessions |-> IF t <= cur THEN Unmount(players[t]) ELSE players[t]]
    /\ UNCHANGED <<sideVars, variant, cur, saved, guesses, attempts, attemptOps, failures>>

\* ----------------------------------------------------- CollectionPlayer
\* init(): the batch query of pre-answered games resolves, then loadQuestion(startIndex)
InitResolve(s) ==
    /\ players[s].initQuery
    /\ \E ok \in BOOLEAN :
         /\ MayFail(ok)
         /\ \E map \in (IF ok THEN PreAnsweredMaps ELSE {<< >>}) :
              LET p1 == [players[s] EXCEPT !.initQuery = FALSE, !.preAnsweredRef = map]
                  out == loadQuestion(p1, s, p1.startIndex, Mounted(s))
              IN  /\ Commit(s, out)
                  /\ attemptOps' = attemptOps \o out.ops
    /\ UNCHANGED <<sideVars, variant, cur, guesses, attempts>>

\* loadQuestion: getGameById(gameId) resolves
FetchResolve(s) ==
    \E f \in players[s].fetches, ok \in BOOLEAN :
      /\ MayFail(ok)
      /\ LET mtd == Mounted(s)
             p1 == [players[s] EXCEPT !.fetches = @ \ {f}]
             out == IF f.hist
                    THEN Outcome(IF mtd
                                 THEN [p1 EXCEPT !.currentGame =
                                                     IF ok THEN GameIdAt(f.index) ELSE NoGame,
                                                 !.playState = "historical"]
                                 ELSE p1, <<>>, <<>>, FALSE)
                    ELSE IF ok
                    THEN Outcome(showQuestion(p1, GameIdAt(f.index), f.index, mtd),
                                 <<>>, <<>>, FALSE)
                    ELSE IF mtd
                    THEN \* setCurrentIndex(i => i + 1), then the [currentIndex] effect
                         loadQuestion([p1 EXCEPT !.currentIndex = @ + 1], s,
                                      p1.currentIndex + 1, TRUE)
                    ELSE Outcome(p1, <<>>, <<>>, FALSE)
         IN  /\ Commit(s, out)
             /\ attemptOps' = attemptOps \o out.ops
      /\ UNCHANGED <<sideVars, variant, cur, guesses, attempts>>

\* the background getGameById(nextId).then(...) resolves
PrefetchResolve(s) ==
    \E id \in players[s].prefetches, ok \in BOOLEAN :
      /\ MayFail(ok)
      /\ LET p1 == [players[s] EXCEPT !.prefetches = @ \ {id}]
             p2 == IF ok THEN [p1 EXCEPT !.prefetchRef = id] ELSE p1
         IN  Commit(s, Outcome(p2, <<>>, <<>>, FALSE))
      /\ UNCHANGED <<sideVars, variant, cur, guesses, attempts, attemptOps>>

\* GameMap.onLocationSelect = setUserGuess: the pin lands d metres from the truth
SelectLocation(s) ==
    /\ Mounted(s)
    /\ players[s].playState = "playing"
    /\ \E d \in Dists :
         /\ players[s].userGuess # d
         /\ players' = [players EXCEPT ![s].userGuess = d]
    /\ UNCHANGED <<sideVars, variant, mode, home, cur, saved, guesses, attempts, attemptOps, failures>>

\* (mutation) neither handleSubmitGuess nor the button looks at isSubmitting
canSubmit_noFlag(p) == ~(p.userGuess = NoGuess \/ p.currentGame = NoGame)

\* handleSubmitGuess: if (!userGuess || !currentGame || isSubmitting) return;
\* the button is disabled on !userGuess || isSubmitting
canSubmit(p) == ~(p.userGuess = NoGuess \/ p.currentGame = NoGame \/ p.isSubmitting)

\* handleSubmitGuess up to "await saveGuess(guess)"
HandleSubmitGuess(s) ==
    /\ Mounted(s)
    /\ players[s].playState = "playing"
    /\ canSubmit(players[s])
    /\ LET distance == players[s].userGuess
           score == scoreOf[distance]
       IN  players' = [players EXCEPT
                          ![s].isSubmitting = TRUE,
                          ![s].saves = Append(@, Item(players[s].currentGame, score, distance))]
    /\ UNCHANGED <<sideVars, variant, mode, home, cur, saved, guesses, attempts, attemptOps, failures>>

\* saveGuess resolves (its error is only logged); handleSubmitGuess continues
SaveGuessResolve(s) ==
    /\ players[s].saves # <<>>
    /\ \E ok \in BOOLEAN :
         /\ MayFail(ok)
         /\ LET g == Head(players[s].saves)
                mtd == Mounted(s)
                updated == appendItem(players[s].progressRef, g)
                p1 == [players[s] EXCEPT !.saves = Tail(@), !.progressRef = updated]
                p2 == IF mtd THEN [p1 EXCEPT !.isSubmitting = FALSE, !.playState = "reviewing"]
                      ELSE p1
            IN  /\ guesses' = IF ok THEN Append(guesses, GuessRow(g)) ELSE guesses
                /\ Commit(s, Outcome(p2, <<updated>>, <<>>, FALSE))
    /\ UNCHANGED <<sideVars, variant, cur, attempts, attemptOps>>

\* handleNext (with the [currentIndex] effect it triggers)
HandleNext(s) ==
    /\ Mounted(s)
    /\ players[s].playState \in {"reviewing", "historical"}
    /\ players[s].currentIndex + 1 < NumGames \/ Len(attemptOps) < MaxAttemptOps
    /\ LET next == players[s].currentIndex + 1
           final == finalOf(players[s].progressRef)
           out == IF variant /\ next >= NumGames
                  THEN Outcome([players[s] EXCEPT !.progressRef = final], <<final>>,
                               <<NewAttemptOp(s, final.totalScore, FALSE)>>, TRUE)
                  ELSE loadQuestion([players[s] EXCEPT !.currentIndex = next], s, next, TRUE)
       IN  /\ Commit(s, out)
           /\ attemptOps' = attemptOps \o out.ops
    /\ UNCHANGED <<sideVars, variant, cur, guesses, attempts, failures>>

\* handleBack = onBack(): the close button of the playing / reviewing view
\* (and of the historical view in the part_002 revision)
HandleBack(s) ==
    /\ Mounted(s)
    /\ players[s].playState \in
          {"playing", "reviewing"} \cup (IF variant THEN {"historical"} ELSE {})
    /\ Commit(s, Outcome(players[s], <<>>, <<>>, TRUE))
    /\ UNCHANGED <<sideVars, variant, cur, guesses, attempts, attemptOps, failures>>

\* ------------------------------------------------ submitCollectionAttempt
RemoveAt(seq, k) == [i \in 1..(Len(seq) - 1) |-> IF i < k THEN seq[i] ELSE seq[i + 1]]

\* the call returns: an awaiting loadQuestion goes on to onComplete()
AttemptReturn(op) ==
    Commit(op.inst, Outcome(players[op.inst], <<>>, <<>>, op.awaited))

\* the select ... maybeSingle() resolves
AttemptSelectResolve(k) ==
    /\ k \in 1..Len(attemptOps)
    /\ attemptOps[k].phase = "select"
    /\ \E ok \in BOOLEAN :
         /\ MayFail(ok)
         /\ LET op == attemptOps[k]
                existing == maybeSingle(attempts, ok)
            IN  IF existing # <<>>
                THEN IF beatsExisting(op.totalScore, existing[1])
                     THEN /\ attemptOps' = [attemptOps EXCEPT ![k].phase = "update",
                                                              ![k].id = existing[1].id]
                          /\ UNCHANGED <<mode, home, players, saved>>
                     ELSE /\ attemptOps' = RemoveAt(attemptOps, k)
                          /\ AttemptReturn(op)
                ELSE /\ attemptOps' = [attemptOps EXCEPT ![k].phase = "insert"]
                     /\ UNCHANGED <<mode, home, players, saved>>
    /\ UNCHANGED <<sideVars, variant, cur, guesses, attempts>>

\* the insert / update resolves (an error is at most logged)
AttemptWriteResolve(k) ==
    /\ k \in 1..Len(attemptOps)
    /\ attemptOps[k].phase \in {"insert", "update"}
    /\ \E ok \in BOOLEAN :
         /\ MayFail(ok)
         /\ LET op == attemptOps[k]
            IN  /\ attempts' = IF ~ok THEN attempts
                               ELSE IF op.phase = "insert"
                               THEN Append(attempts,
                                           AttemptRow(Len(attempts) + 1, op.totalScore))
                               ELSE [i \in 1..Len(attempts) |->
                                       IF attempts[i].id = op.id
                                       THEN [attempts[i] EXCEPT !.total_score = op.totalScore]
                                       ELSE attempts[i]]
                /\ attemptOps' = RemoveAt(attemptOps, k)
                /\ AttemptReturn(op)
    /\ UNCHANGED <<sideVars, variant, cur, guesses>>

\* ---------------------------------------------------------------- system
HistRows(P) ==
    LET Test(g) == g \in P
        ids == SelectSeq(gameIds, Test)
    IN  [i \in 1..Len(ids) |-> Item(ids[i], scoreOf[HistDistance], HistDistance)]

Init ==
    /\ variant \in BOOLEAN
    /\ mode = "COLLECTION_HOME"
    /\ home = FreshHome
    /\ cur = 0
    /\ players = [s \in Sessions |-> NoPlayer]
    /\ saved = <<>>
    /\ guesses \in {HistRows(P) : P \in SUBSET GameIdSet}
    /\ attempts \in {<<>>} \cup {<<AttemptRow(OldAttemptId, x)>> : x \in InitAttemptScores}
    /\ attemptOps = <<>>
    /\ failures = 0
    /\ SideIdle

Next ==
    \/ HomeLoad
    \/ HomeLeaderboard
    \/ OnStartPlay
    \/ HandleHashChange
    \/ \E s \in Sessions : InitResolve(s)
    \/ \E s \in Sessions : FetchResolve(s)
    \/ \E s \in Sessions : PrefetchResolve(s)
    \/ \E s \in Sessions : SelectLocation(s)
    \/ \E s \in Sessions : HandleSubmitGuess(s)
    \/ \E s \in Sessions : SaveGuessResolve(s)
    \/ \E s \in Sessions : HandleNext(s)
    \/ \E s \in Sessions : HandleBack(s)
    \/ \E k \in 1..(MaxAttemptOps + MaxSessions) : AttemptSelectResolve(k)
    \/ \E k \in 1..(MaxAttemptOps + MaxSessions) : AttemptWriteResolve(k)

Spec == Init /\ [][Next]_vars

\* ------------------------------------- submitCollectionAttempt on its own
\* the totals a caller can submit: sums of up to two question scores
TotalScores ==
    LET one == {0} \cup {scoreOf[d] : d \in GuessDistances}
    IN  {a + b : a \in one, b \in one}

\* a caller submits totalScore once the previous call has returned
SubmitCollectionAttempt(totalScore) ==
    /\ attemptOps = <<>>
    /\ Len(attempts) < MaxAttemptRows
    /\ attemptOps' = <<NewAttemptOp(1, totalScore, FALSE)>>
    /\ UNCHANGED <<sideVars, variant, mode, home, cur, players, saved, guesses, attempts, failures>>

AttemptInit ==
    /\ variant = FALSE
    /\ mode = "COLLECTION_HOME"
    /\ home = FreshHome
    /\ cur = 0
    /\ players = [s \in Sessions |-> NoPlayer]
    /\ saved = <<>>
    /\ guesses = <<>>
    /\ attempts \in {<<>>} \cup {<<AttemptRow(OldAttemptId, x)>> : x \in InitAttemptScores}
    /\ attemptOps = <<>>
    /\ failures = 0
    /\ SideIdle

AttemptNext ==
    \/ \E totalScore \in TotalScores : SubmitCollectionAttempt(totalScore)
    \/ \E k \in 1..MaxAttemptOps : AttemptSelectResolve(k)
    \/ \E k \in 1..MaxAttemptOps : AttemptWriteResolve(k)

AttemptSpec == AttemptInit /\ [][AttemptNext]_vars

\* ------------------------------------------------------------ properties
\* every CollectionProgress object the program holds: the refs of the
\* instances and the persisted copy
Progresses ==
    {players[s].progressRef : s \in Sessions} \cup {saved[i] : i \in 1..Len(saved)}

\* the live instance, when there is one
Live == mode = "COLLECTION_PLAY" /\ cur \in Sessions

IndexOfGame(gameId) == CHOOSE i \in 1..NumGames : gameIds[i] = gameId

\* C1: in every reachable state totalScore equals the sum of the scores of
\* completedItems, in every in-memory progress and in the persisted copy.
C1_TotalIsSum ==
    \A pr \in Progresses : pr.totalScore = SumScores(pr.completedItems)

\* C1 witness: a completed playthrough was persisted whose items include an
\* auto-recorded historical answer and a submitted guess.
C1_Witness ==
    /\ saved # <<>>
    /\ saved[1].isCompleted
    /\ \E i, j \in 1..Len(saved[1].completedItems) :
         /\ saved[1].completedItems[i].distance = HistDistance
         /\ saved[1].completedItems[j].distance \in Dists
    /\ saved[1].totalScore = SumScores(saved[1].completedItems)
    /\ saved[1].totalScore > 0

\* C2: completedItems holds at most one entry per challenge id, in the
\* relative order of the collection's ordered challenge ids.
C2_UniqueInOrder ==
    \A pr \in Progresses :
      \A i, j \in 1..Len(pr.completedItems) :
        i < j => IndexOfGame(pr.completedItems[i].gameId)
                   < IndexOfGame(pr.completedItems[j].gameId)

\* the step runs loadQuestion(index) in the live instance s
LoadsQuestion(s, index) ==
    /\ Mounted(s)
    /\ mode' = "COLLECTION_PLAY"
    /\ \/ InitResolve(s) /\ index = players[s].startIndex
       \/ HandleNext(s) /\ index = players[s].currentIndex + 1
       \/ /\ FetchResolve(s)
          /\ players'[s].currentIndex = players[s].currentIndex + 1
          /\ index = players[s].currentIndex + 1

\* the live instance s shows, or is fetching the picture of, the historical card of index
TowardsHistorical(s, index) ==
    \/ players'[s].playState = "historical"
    \/ /\ variant
       /\ players'[s].playState = "loading"
       /\ [index |-> index, hist |-> TRUE] \in players'[s].fetches

\* C3: loading a pre-answered question that is already recorded leaves the
\* progress and its persisted copy unchanged and leads to Historical; loading
\* one that is not yet recorded appends exactly one entry carrying the
\* historical score and distance (and persists it).
C3_PreAnsweredLoad ==
    [][\A s \in Sessions : \A index \in 0..(NumGames - 1) :
         LET gameId == GameIdAt(index)
             before == players[s].progressRef
             after == players'[s].progressRef
         IN  (LoadsQuestion(s, index) /\ gameId \in DOMAIN players'[s].preAnsweredRef) =>
               /\ TowardsHistorical(s, index)
               /\ IF HasItem(before.completedItems, gameId)
                  THEN after = before /\ saved' = saved
                  ELSE /\ after.completedItems =
                            Append(before.completedItems,
                                   Item(gameId, players'[s].preAnsweredRef[gameId].score,
                                        players'[s].preAnsweredRef[gameId].distance))
                       /\ after.totalScore =
                            before.totalScore + players'[s].preAnsweredRef[gameId].score
                       /\ after.isCompleted = before.isCompleted
                       /\ saved' = <<after>>
                       /\ players'[s].preAnsweredRef[gameId] \in RowsOf(gameId)
      ]_vars

\* C3 witness: an instance resumed at index 1 (one item was stored) shows the
\* historical card of question 1, and that one stored item is question 1's:
\* the load found it recorded and appended nothing.
C3_Witness ==
    /\ Live
    /\ cur > 1
    /\ players[cur].playState = "historical"
    /\ players[cur].startIndex = 1
    /\ players[cur].currentIndex = 1
    /\ Len(players[cur].progressRef.completedItems) = 1
    /\ players[cur].progressRef.completedItems[1].gameId = GameIdAt(1)
    /\ saved = <<players[cur].progressRef>>

\* C3 witness (second case): the first question was pre-answered and has just been auto-recorded.
C3_WitnessAppend ==
    /\ Live
    /\ cur = 1
    /\ players[cur].playState = "historical"
    /\ players[cur].currentIndex = 0
    /\ players[cur].progressRef.completedItems =
          <<Item(GameIdAt(0), scoreOf[HistDistance], HistDistance)>>
    /\ saved = <<players[cur].progressRef>>

\* the step is the select of the k-th submitCollectionAttempt call resolving
SelectStep(k) ==
    /\ k \in 1..Len(attemptOps)
    /\ attemptOps[k].phase = "select"
    /\ attempts' = attempts
    /\ \/ attemptOps' = RemoveAt(attemptOps, k)
       \/ /\ Len(attemptOps') = Len(attemptOps)
          /\ attemptOps'[k].phase # "select"
          /\ \A j \in 1..Len(attemptOps) : j # k => attemptOps'[j] = attemptOps[j]

\* the step is the insert / update of the k-th submitCollectionAttempt call succeeding
WriteStep(k) ==
    /\ k \in 1..Len(attemptOps)
    /\ attemptOps[k].phase \in {"insert", "update"}
    /\ attemptOps' = RemoveAt(attemptOps, k)
    /\ failures' = failures

\* C4: submitCollectionAttempt inserts a row when it finds none for the
\* (collection, user), rewrites the row it found only with a strictly greater
\* total and otherwise writes nothing; no stored row disappears or loses
\* score, so the stored best never decreases, and a call whose write succeeds
\* leaves a row at least as good as the total it submitted.
C4_BestScoreWins ==
    [][/\ Len(attempts') >= Len(attempts)
       /\ \A i \in 1..Len(attempts) :
            /\ attempts'[i].id = attempts[i].id
            /\ attempts'[i].total_score >= attempts[i].total_score
       /\ MaxScore(attempts') >= MaxScore(attempts)
       /\ \A k \in 1..Len(attemptOps) :
            LET op == attemptOps[k]
            IN  /\ SelectStep(k) =>
                     /\ Len(attempts) = 0 =>
                          /\ Len(attemptOps') = Len(attemptOps)
                          /\ attemptOps'[k].phase = "insert"
                     /\ (Len(attempts) = 1 /\ failures' = failures) =>
                          IF op.totalScore > attempts[1].total_score
                          THEN /\ Len(attemptOps') = Len(attemptOps)
                               /\ attemptOps'[k].phase = "update"
                               /\ attemptOps'[k].id = attempts[1].id
                               /\ attemptOps'[k].totalScore = op.totalScore
                          ELSE attemptOps' = RemoveAt(attemptOps, k)
                /\ WriteStep(k) =>
                     /\ IF op.phase = "insert"
                        THEN /\ Len(attempts') = Len(attempts) + 1
                             /\ attempts'[Len(attempts')].total_score = op.totalScore
                             /\ \A i \in 1..Len(attempts) :
                                  attempts'[Len(attempts')].id # attempts[i].id
                        ELSE /\ Len(attempts') = Len(attempts)
                             /\ \A i \in 1..Len(attempts) :
                                  attempts'[i].total_score =
                                     IF attempts[i].id = op.id THEN op.totalScore
                                     ELSE attempts[i].total_score
                     /\ MaxScore(attempts') >= op.totalScore
      ]_vars

\* C4 witness: the row stored before the calls was rewritten with a strictly
\* greater total, and a later call (whose select failed) inserted a row of its own.
C4_Witness ==
    /\ attemptOps = <<>>
    /\ Len(attempts) = 2
    /\ attempts[1].id = OldAttemptId
    /\ attempts[1].total_score > 5000
    /\ attempts[2].id # OldAttemptId

\* C4 witness (insert): there was no row and the submitted total was inserted.
C4_WitnessInsert ==
    /\ Len(attempts) = 1
    /\ attempts[1].id # OldAttemptId
    /\ attemptOps = <<>>

\* the live instance s is loading the last question and its getGameById fails
SkipsLast(s) ==
    /\ Mounted(s)
    /\ players[s].playState = "loading"
    /\ players[s].currentIndex = NumGames - 1
    /\ players[s].fetches = {[index |-> NumGames - 1, hist |-> FALSE]}
    /\ FetchResolve(s)
    /\ failures' = failures + 1

\* Next on the last question of the live instance s (answered or historical)
NextOnLast(s) ==
    /\ Mounted(s)
    /\ players[s].currentIndex + 1 >= NumGames
    /\ HandleNext(s)

\* the step marks the progress of instance s completed, persists it and
\* starts a submitCollectionAttempt call with its total
CompletionRuns(s) ==
    LET final == finalOf(players[s].progressRef)
    IN  /\ saved' = <<final>>
        /\ saved'[1].isCompleted
        /\ saved'[1].completedAt = SomeTime
        /\ Len(attemptOps') = Len(attemptOps) + 1
        /\ attemptOps'[Len(attemptOps')].phase = "select"
        /\ attemptOps'[Len(attemptOps')].totalScore = final.totalScore
        /\ final.totalScore = SumScores(final.completedItems)

\* C5: whenever the question index of the live player reaches the collection
\* length -- Next after the last answered or historical question, or the last
\* challenge skipped because it failed to load -- the progress is marked
\* completed with completedAt set, persisted, and a CollectionAttempt is
\* submitted whose total is the progress total.
C5_CompletesAtEnd ==
    [][\A s \in Sessions : (NextOnLast(s) \/ SkipsLast(s)) => CompletionRuns(s)]_vars

\* C5 (Next paths only): the same for Next after the last question
C5_NextCompletes ==
    [][\A s \in Sessions : NextOnLast(s) => CompletionRuns(s)]_vars

C7_DisplayedIsCurrent ==
    (Live /\ players[cur].playState \in {"playing", "reviewing"}) =>
       /\ players[cur].currentIndex < NumGames
       /\ players[cur].currentGame = gameIds[players[cur].currentIndex + 1]

\* C7 (inside the collection): the same, for an index that is still a question's
C7_InsideCollection ==
    (/\ Live
     /\ players[cur].playState \in {"playing", "reviewing"}
     /\ players[cur].currentIndex < NumGames) =>
       players[cur].currentGame = gameIds[players[cur].currentIndex + 1]

\* C7 (stale results): a fetch or prefetch resolving in an instance that is no
\* longer mounted changes nothing but that instance's own request bookkeeping
C7_StaleDiscarded ==
    [][\A s \in Sessions :
         (~Mounted(s) /\ (FetchResolve(s) \/ PrefetchResolve(s))) =>
            /\ mode' = mode /\ home' = home /\ saved' = saved
            /\ attemptOps' = attemptOps
            /\ \A t \in Sessions : t # s => players'[t] = players[t]
            /\ players'[s].playState = "unmounted"
      ]_vars

\* C8: when the remote write of the guess fails, the live player does not
\* advance: nothing is appended to the progress (in memory or persisted), the
\* state stays Playing, and the question is answerable again.
C8_NoSilentAdvance ==
    [][\A s \in Sessions :
         (Mounted(s) /\ SaveGuessResolve(s) /\ failures' = failures + 1) =>
            /\ players'[s].progressRef = players[s].progressRef
            /\ saved' = saved
            /\ players'[s].playState = "playing"
            /\ canSubmit(players'[s])
      ]_vars

\* getGameById returns null for the question (index) the live instance s is loading
SkipStep(s, index) ==
    /\ Mounted(s)
    /\ players[s].playState = "loading"
    /\ players[s].currentIndex = index
    /\ players[s].fetches = {[index |-> index, hist |-> FALSE]}
    /\ FetchResolve(s)
    /\ failures' = failures + 1

\* after the skip of index the player is on question index + 1 and nothing was
\* recorded for the skipped challenge (the load of the next question may
\* auto-record that next question's historical answer)
MovedOn(s, index) ==
    LET before == players[s].progressRef.completedItems
        after == players'[s].progressRef.completedItems
    IN  /\ mode' = "COLLECTION_PLAY"
        /\ players'[s].currentIndex = index + 1
        /\ \/ players'[s].playState = "historical"
           \/ /\ players'[s].playState = "loading"
              /\ \E f \in players'[s].fetches : f.index = index + 1
        /\ \/ after = before
           \/ /\ Len(after) = Len(before) + 1
              /\ SubSeq(after, 1, Len(before)) = before
              /\ after[Len(after)].gameId = GameIdAt(index + 1)
        /\ ~HasItem(after, GameIdAt(index)) \/ HasItem(before, GameIdAt(index))

\* C9: when getGameById returns null for the question being loaded, the index
\* advances by exactly one, nothing is appended for the skipped challenge, and
\* the player goes on with the next question, or -- the skipped challenge
\* being the last -- the playthrough completes.
C9_SkipsAndContinues ==
    [][\A s \in Sessions : \A index \in 0..(NumGames - 1) :
         SkipStep(s, index) =>
            IF index + 1 < NumGames THEN MovedOn(s, index) ELSE CompletionRuns(s)
      ]_vars

\* C9 (skip inside the collection): the same for a skipped challenge that is not the last
C9_SkipAdvances ==
    [][\A s \in Sessions : \A index \in 0..(NumGames - 2) :
         SkipStep(s, index) => MovedOn(s, index)
      ]_vars

\* init() of the live instance s reaches loadQuestion(startIndex) with startIndex >= length
StartsPastEnd(s) ==
    /\ Mounted(s)
    /\ players[s].startIndex >= NumGames
    /\ InitResolve(s)

\* C10: a playthrough started with a start index >= the collection length is
\* treated as complete at once: the progress is marked completed and persisted
\* and the attempt submitted (the completion path), and no question is
\* presented or fetched.
C10_StartPastEndCompletes ==
    [][\A s \in Sessions :
         StartsPastEnd(s) =>
            /\ CompletionRuns(s)
            /\ players'[s].playState \notin {"loading", "historical", "playing", "reviewing"}
            /\ players'[s].fetches = {}
      ]_vars

\* C10 (components/CollectionPlayer.tsx only): the same for the revision whose
\* loadQuestion runs the completion block itself
C10_NamedRevision ==
    [][\A s \in Sessions :
         (~variant /\ StartsPastEnd(s)) =>
            /\ CompletionRuns(s)
            /\ players'[s].playState = "initializing"
            /\ players'[s].fetches = {}
      ]_vars

\* a live instance was started past the end in the named revision and is completing
C10_NamedReached ==
    /\ ~variant
    /\ Live
    /\ players[cur].startIndex >= NumGames
    /\ players[cur].playState = "initializing"
    /\ players[cur].progressRef.isCompleted

\* ============================================================ leaderboard
\* a collection_attempts row as mapped to a CollectionAttempt
AttemptOf(id, userId, totalScore, completedAt) ==
    [id |-> id, userId |-> userId, totalScore |-> totalScore, completedAt |-> completedAt]

\* the tables the functions are run on: one row for each of the first n users
\* (scores and times repeat, so there are ties), and a second row for some of
\* the first two users, stored before or after the others
BaseRows(n, a, b, c) ==
    [u \in 1..n |-> AttemptOf(u, u, 100 * ((u * a + b) % 3), ((u * c) % 4) + 1)]

RECURSIVE ExtraRows(_, _, _)
ExtraRows(users, e, t) ==
    IF users = {} THEN <<>>
    ELSE LET u == CHOOSE x \in users : \A y \in users : x <= y
         IN  <<AttemptOf(100 + u, u, e, t)>> \o ExtraRows(users \ {u}, e, t)

AttemptTables ==
    UNION {
      UNION {
        {BaseRows(n, a, b, c) \o ExtraRows(D, e, t), ExtraRows(D, e, t) \o BaseRows(n, a, b, c)} :
          D \in SUBSET ({1, 2} \cap 1..n), e \in {0, 100, 200}, t \in {1, 5}} :
      n \in 0..MaxUsers, a \in 0..2, b \in 0..2, c \in {1, 3}}

\* .order('total_score', desc).order('completed_at', asc): x comes before y
Before(x, y) ==
    \/ x.totalScore > y.totalScore
    \/ x.totalScore = y.totalScore /\ x.completedAt < y.completedAt

InsertRow(sorted, r) ==
    LET later == {i \in 1..Len(sorted) : Before(r, sorted[i])}
        pos == IF later = {} THEN Len(sorted) + 1
               ELSE CHOOSE i \in later : \A j \in later : i <= j
    IN  SubSeq(sorted, 1, pos - 1) \o <<r>> \o SubSeq(sorted, pos, Len(sorted))

\* the rows as the query returns them (rows equal in both keys keep their stored order)
RECURSIVE orderedRows(_)
orderedRows(rows) ==
    IF rows = <<>> THEN <<>>
    ELSE InsertRow(orderedRows(SubSeq(rows, 1, Len(rows) - 1)), rows[Len(rows)])

\* getCollectionLeaderboard: for (const row of allRows) if (!seen.has(row.userId)) ...
RECURSIVE dedupeFrom(_, _)
dedupeFrom(rows, seen) ==
    IF rows = <<>> THEN <<>>
    ELSE IF Head(rows).userId \in seen THEN dedupeFrom(Tail(rows), seen)
    ELSE <<Head(rows)>> \o dedupeFrom(Tail(rows), seen \cup {Head(rows).userId})

\* (mutation) the loop pushes every row
dedupedOf_all(allRows) == allRows

\* getCollectionLeaderboard: deduped, one entry per userId
dedupedOf(allRows) == dedupeFrom(allRows, {})

TopN == 10

\* (mutation) the slice starts one entry late
topTenOf_shifted(deduped) ==
    SubSeq(deduped, 2, IF Len(deduped) < TopN + 1 THEN Len(deduped) ELSE TopN + 1)

\* deduped.slice(0, 10)
topTenOf(deduped) == SubSeq(deduped, 1, IF Len(deduped) < TopN THEN Len(deduped) ELSE TopN)

\* find: the first entry satisfying the test, as <<entry>>, or <<>> (null / -1)
FirstOf(seq, userId) ==
    LET hits == {i \in 1..Len(seq) : seq[i].userId = userId}
    IN  IF hits = {} THEN <<>> ELSE <<seq[CHOOSE i \in hits : \A j \in hits : i <= j]>>

\* (mutation) the user's record is looked up among the top ten only
myRecordOf_fromTop(deduped, userId) == FirstOf(topTenOf(deduped), userId)

\* deduped.find((a) => a.userId === currentUserId) || null
myRecordOf(deduped, userId) == FirstOf(deduped, userId)

\* getCollectionLeaderboard on the query's data (null on error)
getCollectionLeaderboard(data, currentUserId) ==
    LET deduped == dedupedOf(data)
    IN  [topTen |-> topTenOf(deduped), myRecord |-> myRecordOf(deduped, currentUserId)]

\* the CollectionLeaderboard component: the rows it renders, and the separate
\* row of the viewer (<<>>: not rendered)
CollectionLeaderboard(topTen, myRecord) ==
    LET myRankInTop == IF myRecord = <<>> THEN <<>> ELSE FirstOf(topTen, myRecord[1].userId)
        myIsOutsideTop == myRecord # <<>> /\ myRankInTop = <<>>
    IN  [rows |-> topTen,
         separate |-> IF topTen # <<>> /\ myIsOutsideTop THEN myRecord ELSE <<>>]

\* getCollectionStats / attachStats: best score per user
bestByUser(rows) ==
    LET users == {rows[i].userId : i \in 1..Len(rows)}
    IN  [u \in users |->
           LET mine == {rows[i].totalScore : i \in {j \in 1..Len(rows) : rows[j].userId = u}}
           IN  CHOOSE x \in mine : \A y \in mine : x >= y]

RECURSIVE SumOver(_, _)
SumOver(f, dom) ==
    IF dom = {} THEN 0
    ELSE LET u == CHOOSE x \in dom : TRUE IN f[u] + SumOver(f, dom \ {u})

\* (mutation) the average is truncated
roundedMean_floor(total, count) == total \div count

\* Math.round(total / count) for total >= 0, count > 0
roundedMean(total, count) == (2 * total + count) \div (2 * count)

\* totalCompletions and avgTotalScore of the rows (none when the query failed)
completionStats(rows) ==
    LET best == bestByUser(rows)
        count == Cardinality(DOMAIN best)
    IN  [totalCompletions |-> count,
         avgTotalScore |-> IF count > 0 THEN roundedMean(SumOver(best, DOMAIN best), count)
                           ELSE 0]

\* getCollectionStats: perGameAvgScore over the guesses of the collection's games
perGameAvgScore ==
    [i \in 1..NumGames |->
       LET idx == {j \in 1..Len(guesses) : guesses[j].gameId = gameIds[i]}
           sc == [j \in idx |-> guesses[j].score]
       IN  IF idx = {} THEN 0 ELSE roundedMean(SumOver(sc, idx), Cardinality(idx))]

\* CollectionHome.load: lb = await getCollectionLeaderboard(collectionId, currentUser.id)
GetCollectionLeaderboard ==
    /\ leaderboard = <<>>
    /\ \E ok \in BOOLEAN :
         /\ MayFail(ok)
         /\ LET data == IF ok THEN orderedRows(table) ELSE <<>>
                lb == getCollectionLeaderboard(data, me)
            IN  leaderboard' = <<[topTen |-> lb.topTen, myRecord |-> lb.myRecord,
                                  view |-> CollectionLeaderboard(lb.topTen, lb.myRecord)]>>
    /\ UNCHANGED <<libVars, table, me, stats, lastDistance, lastScore, mapVars>>
    /\ UNCHANGED <<variant, mode, home, cur, players, saved, guesses, attempts, attemptOps>>

\* getCollectionStats(collectionId)
GetCollectionStats ==
    /\ stats = <<>>
    /\ \E ok \in BOOLEAN :
         /\ MayFail(ok)
         /\ LET st == completionStats(IF ok THEN table ELSE <<>>)
            IN  stats' = <<[by |-> "getCollectionStats",
                            totalCompletions |-> st.totalCompletions,
                            avgTotalScore |-> st.avgTotalScore,
                            perGameAvgScore |-> perGameAvgScore]>>
    /\ UNCHANGED <<libVars, table, me, leaderboard, lastDistance, lastScore, mapVars>>
    /\ UNCHANGED <<variant, mode, home, cur, players, saved, guesses, attempts, attemptOps>>

\* attachStats(collections) for the one collection of the table
AttachStats ==
    /\ stats = <<>>
    /\ \E ok \in BOOLEAN :
         /\ MayFail(ok)
         /\ LET st == completionStats(IF ok THEN table ELSE <<>>)
            IN  stats' = <<[by |-> "attachStats",
                            totalCompletions |-> st.totalCompletions,
                            avgTotalScore |-> st.avgTotalScore]>>
    /\ UNCHANGED <<libVars, table, me, leaderboard, lastDistance, lastScore, mapVars>>
    /\ UNCHANGED <<variant, mode, home, cur, players, saved, guesses, attempts, attemptOps>>

BoardInit ==
    /\ variant = FALSE
    /\ mode = "COLLECTION_HOME"
    /\ home = FreshHome
    /\ cur = 0
    /\ players = [s \in Sessions |-> NoPlayer]
    /\ saved = <<>>
    /\ guesses = HistRows(GameIdSet)
    /\ attempts = <<>>
    /\ attemptOps = <<>>
    /\ failures = 0
    /\ table \in AttemptTables
    /\ me \in {1, 2, MaxUsers}
    /\ leaderboard = <<>>
    /\ stats = <<>>
    /\ lastDistance = -1
    /\ lastScore = <<>>
    /\ MapIdle
    /\ myPlayedList = <<>>
    /\ collections = {}
    /\ collection_items = {}
    /\ createOps = <<>>
    /\ returned = <<>>

BoardNext ==
    \/ GetCollectionLeaderboard
    \/ GetCollectionStats
    \/ AttachStats

BoardSpec == BoardInit /\ [][BoardNext]_vars

\* the rows of the table, its users, and the rows of one user
TableRows == {table[i] : i \in 1..Len(table)}

TableUsers == {r.userId : r \in TableRows}

RowsOfUser(u) == {r \in TableRows : r.userId = u}

\* r is a best row of its user: none of the user's rows has a higher score, or
\* the same score and an earlier completedAt
IsBestOfUser(r) == r \in TableRows /\ \A x \in RowsOfUser(r.userId) : ~Before(x, r)

\* the leaderboard was loaded from a query that succeeded
BoardLoaded == leaderboard # <<>> /\ failures = 0

\* C11: for any table of attempt rows (several rows per user included) the
\* deduplicated leaderboard holds every user of the table exactly once, and the
\* row kept for a user has that user's highest totalScore and, among those, the
\* earliest completedAt; the entries returned (topTen, myRecord) are such rows.
C11_OnePerUserBest ==
    LET deduped == dedupedOf(orderedRows(table))
    IN  /\ \A i, j \in 1..Len(deduped) : i < j => deduped[i].userId # deduped[j].userId
        /\ {deduped[i].userId : i \in 1..Len(deduped)} = TableUsers
        /\ \A i \in 1..Len(deduped) : IsBestOfUser(deduped[i])
        /\ BoardLoaded =>
             LET lb == leaderboard[1]
             IN  /\ \A i, j \in 1..Len(lb.topTen) :
                      i < j => lb.topTen[i].userId # lb.topTen[j].userId
                 /\ \A i \in 1..Len(lb.topTen) : IsBestOfUser(lb.topTen[i])
                 /\ lb.myRecord # <<>> => IsBestOfUser(lb.myRecord[1])

\* C11 witness: the leaderboard was loaded from a table in which a user has two
\* rows with the same (highest) score and different times, and one in which a
\* user has rows with different scores; the top ten holds the earlier row.
C11_Witness ==
    /\ BoardLoaded
    /\ \E r1, r2 \in TableRows :
         /\ r1.userId = r2.userId /\ r1.totalScore = r2.totalScore
         /\ r1.completedAt < r2.completedAt
         /\ \E i \in 1..Len(leaderboard[1].topTen) : leaderboard[1].topTen[i] = r1
    /\ \E r1, r2 \in TableRows : r1.userId = r2.userId /\ r1.totalScore < r2.totalScore

\* C12: topTen is the first 10 of the per-user best records in the order
\* totalScore descending, completedAt ascending: it has min(10, users) entries,
\* is sorted in that order, and no row of an omitted user outranks an entry.
C12_TopTen ==
    BoardLoaded =>
      LET top == leaderboard[1].topTen
          included == {top[i].userId : i \in 1..Len(top)}
      IN  /\ Len(top) <= 10
          /\ Len(top) = IF Cardinality(TableUsers) < 10 THEN Cardinality(TableUsers) ELSE 10
          /\ \A i \in 1..Len(top) : IsBestOfUser(top[i])
          /\ \A i, j \in 1..Len(top) : i < j => ~Before(top[j], top[i])
          /\ \A r \in TableRows :
               r.userId \notin included => \A i \in 1..Len(top) : ~Before(r, top[i])

\* C12 witness: eleven users, ten entries, and the omitted user ties on score
\* with the last entry (the tie was decided by completedAt or stored order).
C12_Witness ==
    /\ BoardLoaded
    /\ Cardinality(TableUsers) = 11
    /\ Len(leaderboard[1].topTen) = 10
    /\ \E r \in TableRows :
         /\ \A i \in 1..10 : leaderboard[1].topTen[i].userId # r.userId
         /\ r.totalScore = leaderboard[1].topTen[10].totalScore
         /\ r.completedAt > leaderboard[1].topTen[10].completedAt
    /\ leaderboard[1].topTen[1].totalScore > leaderboard[1].topTen[10].totalScore

C13_WitnessInTop ==
    /\ BoardLoaded
    /\ leaderboard[1].myRecord # <<>>
    /\ \E i \in 1..Len(leaderboard[1].topTen) :
         leaderboard[1].topTen[i] = leaderboard[1].myRecord[1]
    /\ leaderboard[1].view.separate = <<>>

\* the highest totalScore among the rows of user u
BestScoreOf(u) ==
    CHOOSE x \in {r.totalScore : r \in RowsOfUser(u)} :
      \A r \in RowsOfUser(u) : x >= r.totalScore

\* C14: for any table of attempt rows, totalCompletions is the number of
\* distinct users and avgTotalScore is the mean of the users' best scores
\* rounded to the nearest integer; both are 0 for an empty table.
C14_Stats ==
    (stats # <<>> /\ failures = 0) =>
      LET st == stats[1]
          n == Cardinality(TableUsers)
          total == SumOver([u \in TableUsers |-> BestScoreOf(u)], TableUsers)
      IN  /\ st.totalCompletions = n
          /\ n = 0 => st.avgTotalScore = 0
          /\ n > 0 =>
               /\ 2 * (n * st.avgTotalScore - total) <= n
               /\ 2 * (total - n * st.avgTotalScore) <= n

\* C14 witness: statistics of a table with a duplicated user whose mean of
\* best scores is not an integer and rounds up.
C14_Witness ==
    /\ stats # <<>>
    /\ failures = 0
    /\ Len(table) > Cardinality(TableUsers)
    /\ stats[1].totalCompletions = Cardinality(TableUsers)
    /\ stats[1].totalCompletions * stats[1].avgTotalScore >
          SumOver([u \in TableUsers |-> BestScoreOf(u)], TableUsers)

\* ================================================================ scoring
ScoreDistances == 0..MaxNear \cup {k * FarStep : k \in 1..MaxFar}

\* the two functions on the distances of this model, evaluated once
calcScoreOn == [d \in ScoreDistances |-> calcScore(d)]

calculateScoreOn == [d \in ScoreDistances |-> calculateScore(d)]

\* CollectionPlayer.handleSubmitGuess: const score = calcScore(distance)
CalcScore(d) ==
    /\ lastDistance' = d
    /\ lastScore' = <<[by |-> "calcScore", value |-> calcScoreOn[d]]>>
    /\ UNCHANGED <<libVars, table, me, leaderboard, stats, mapVars>>
    /\ UNCHANGED <<variant, mode, home, cur, players, saved, guesses, attempts, attemptOps,
                   failures>>

\* App.handleGuessSubmit: const score = calculateScore(distance)
CalculateScore(d) ==
    /\ lastDistance' = d
    /\ lastScore' = <<[by |-> "calculateScore", value |-> calculateScoreOn[d]]>>
    /\ UNCHANGED <<libVars, table, me, leaderboard, stats, mapVars>>
    /\ UNCHANGED <<variant, mode, home, cur, players, saved, guesses, attempts, attemptOps,
                   failures>>

ScoreInit ==
    /\ variant = FALSE
    /\ mode = "COLLECTION_HOME"
    /\ home = FreshHome
    /\ cur = 0
    /\ players = [s \in Sessions |-> NoPlayer]
    /\ saved = <<>>
    /\ guesses = <<>>
    /\ attempts = <<>>
    /\ attemptOps = <<>>
    /\ failures = 0
    /\ SideIdle

ScoreNext ==
    \/ \E d \in ScoreDistances : CalcScore(d)
    \/ \E d \in ScoreDistances : CalculateScore(d)

ScoreSpec == ScoreInit /\ [][ScoreNext]_vars

ReferenceScores ==
    [d \in {50, 200, 201, 1000, 1000000, 2000000, 5000000, 10000000, 20000000} |->
       CASE d = 50 -> 5000 [] d = 200 -> 5000 [] d = 201 -> 4999 [] d = 1000 -> 4998
         [] d = 1000000 -> 3033 [] d = 2000000 -> 1839 [] d = 5000000 -> 410
         [] d = 10000000 -> 34 [] d = 20000000 -> 0]

\* C16: for every distance d >= 0 the score is an integer in [0, 5000], it is
\* round(5000 * exp(-d / 2000000)) for d >= 50 (compared with reference
\* values), and a guess that is not nearer never scores more: the function is
\* non-increasing over the whole domain, the 50 m threshold included.
C16_RangeAndMonotone ==
    [][(lastScore' # <<>>) =>
         /\ lastScore'[1].value \in 0..5000
         /\ lastDistance' \in DOMAIN ReferenceScores =>
              lastScore'[1].value = ReferenceScores[lastDistance']
         /\ (lastScore # <<>> /\ lastDistance' >= lastDistance) =>
              lastScore'[1].value <= lastScore[1].value
         /\ (lastScore # <<>> /\ lastDistance' <= lastDistance) =>
              lastScore'[1].value >= lastScore[1].value
      ]_vars

\* C16 witness: a guess on the far side of the globe scored 0 (the previous
\* one, nearer than 50 m, had scored 5000)
C16_Witness ==
    /\ lastScore # <<>>
    /\ lastDistance = MaxFar * FarStep
    /\ lastScore[1].value = 0

\* ---------------------------------------------------------------- the map
\* Coordinates are in units of 1/10000 of a degree.  The regional shift of
\* GCJ-02 (a few hundred metres) is not computed: a point carries the number
\* of times the shift has been applied to it, so that a point of the WGS84
\* frame has shift 0 and a point of the GCJ-02 frame has shift 1.
Place(lat, lng) == [lat |-> lat, lng |-> lng, shift |-> 0]

\* GameMap.defaultCenter = { lat: 35.8617, lng: 104.1954 }
defaultCenter == Place(358617, 1041954)

\* the places of this model: inside the region, in the ring that the
\* transform shifts but isInChina excludes, and outside both
MapLats == {100000, 358617, 600000}

MapLngs == {725000, 1041954, 1400000}

MapPlaces == {Place(lat, lng) : lat \in MapLats, lng \in MapLngs}

\* the locations of the collection's games
GameLocations == {Place(358617, 1041954), Place(600000, 1400000)}

isInChina(loc) ==
    loc.lng >= 730000 /\ loc.lng <= 1350000 /\ loc.lat >= 180000 /\ loc.lat <= 540000

getTileSourceFor(loc) == IF isInChina(loc) THEN "gaode" ELSE "globalZh"

outOfChina(lng, lat) == lng < 720040 \/ lng > 1378347 \/ lat < 8293 \/ lat > 558271

wgs84ToGcj02(loc) ==
    IF outOfChina(loc.lng, loc.lat) THEN loc ELSE [loc EXCEPT !.shift = @ + 1]

\* services/coordTransform.gcj02ToWgs84: the inverse of the shift inside the
\* region, the identity outside it
gcj02ToWgs84(loc) ==
    IF outOfChina(loc.lng, loc.lat) THEN loc ELSE [loc EXCEPT !.shift = @ - 1]

toMapCoords(loc, source) == IF source = "gaode" THEN wgs84ToGcj02(loc) ELSE loc

fromMapCoords(loc, source) == IF source = "gaode" THEN gcj02ToWgs84(loc) ELSE loc

\* the map coordinates at which a tile layer shows a place of the world:
\* the gaode tiles are drawn in GCJ-02, the global tiles in WGS84
Shown(place, layer) == IF layer = "gaode" THEN wgs84ToGcj02(place) ELSE place

\* the place of the world that a tile layer shows at given map coordinates
PlaceAt(loc, layer) == [loc EXCEPT !.shift = 0]

\* selectedLocation || actualLocation || initialCenter || safeCenter, with
\* initialCenter undefined as CollectionPlayer mounts the map
anchorOf(m) ==
    IF m.selectedLocation # <<>> THEN m.selectedLocation[1]
    ELSE IF m.actualLocation # <<>> THEN m.actualLocation[1]
    ELSE defaultCenter

\* the click handler of the revision in unnamed/part_003 hands e.latlng over
\* as it is; GameMap.handleClick converts it with the frame of its render
clickedPoint(revision, e, source) == IF revision THEN e ELSE fromMapCoords(e, source)

\* CollectionPlayer renders <GameMap> when a question enters Playing: the
\* useState initialiser, L.map(...).setView and the effects of the first render
MapMount ==
    /\ ~gameMap.mounted
    /\ LET source == IF variant THEN "gaode" ELSE getTileSourceFor(defaultCenter)
       IN  gameMap' = [mounted |-> TRUE,
                       tileSource |-> source,
                       prevTileSourceRef |-> source,
                       tileLayerRef |-> source,
                       rendered |-> source,
                       center |-> toMapCoords(defaultCenter, source),
                       selectedLocation |-> <<>>,
                       actualLocation |-> <<>>,
                       interactive |-> TRUE,
                       stale |-> FALSE]
    /\ gesture' = "none"
    /\ UNCHANGED handed
    /\ UNCHANGED <<libVars, table, me, leaderboard, stats, lastDistance, lastScore>>
    /\ UNCHANGED <<variant, mode, home, cur, players, saved, guesses, attempts, attemptOps,
                   failures>>

\* the user clicks the map where it shows place: handleClick, then the
\* parent's setUserGuess
MapClick(place) ==
    /\ gameMap.mounted
    /\ gameMap.interactive
    /\ LET e == Shown(place, gameMap.tileLayerRef)
           wgsPoint == clickedPoint(variant, e, gameMap.rendered)
       IN  /\ handed' = <<[place |-> place, point |-> wgsPoint]>>
           /\ gameMap' = [gameMap EXCEPT !.selectedLocation = <<wgsPoint>>, !.stale = TRUE]
    /\ gesture' = "click"
    /\ UNCHANGED <<libVars, table, me, leaderboard, stats, lastDistance, lastScore>>
    /\ UNCHANGED <<variant, mode, home, cur, players, saved, guesses, attempts, attemptOps,
                   failures>>

\* the user pans until the map centre shows place and lets go: Leaflet fires
\* moveend and handleMoveEnd runs with the tileSource of its render
MapMoveEnd(place) ==
    /\ gameMap.mounted
    /\ LET centerOnMap == Shown(place, gameMap.tileLayerRef)
           centerInWgs == fromMapCoords(centerOnMap, gameMap.rendered)
           nextSource == getTileSourceFor(centerInWgs)
           before == getTileSourceFor(PlaceAt(gameMap.center, gameMap.tileLayerRef))
       IN  /\ gameMap' = [gameMap EXCEPT
                            !.center = centerOnMap,
                            !.tileSource = IF ~variant /\ nextSource # gameMap.rendered
                                           THEN nextSource ELSE @]
           /\ gesture' = IF getTileSourceFor(place) # before THEN "crossed" ELSE "pan"
    /\ UNCHANGED handed
    /\ UNCHANGED <<libVars, table, me, leaderboard, stats, lastDistance, lastScore>>
    /\ UNCHANGED <<variant, mode, home, cur, players, saved, guesses, attempts, attemptOps,
                   failures>>

\* the tile layer sync effect of a render with tile source `source`
syncTileLayer(m, source) ==
    LET prevSource == m.prevTileSourceRef
        centerInWgs == fromMapCoords(m.center, prevSource)
    IN  [m EXCEPT !.tileLayerRef = source,
                  !.center = toMapCoords(centerInWgs, source),
                  !.prevTileSourceRef = source]

\* React renders GameMap after a state or prop change and runs its effects:
\* the anchor effect on every render, the tile layer sync and the handler
\* registrations when tileSource has changed
MapRender ==
    /\ gameMap.mounted
    /\ gameMap.stale \/ gameMap.tileSource # gameMap.rendered
    /\ LET source == gameMap.tileSource
           nextSource == getTileSourceFor(anchorOf(gameMap))
           synced == IF source # gameMap.rendered
                     THEN syncTileLayer(gameMap, source) ELSE gameMap
       IN  gameMap' = IF variant
                      THEN [gameMap EXCEPT !.stale = FALSE]
                      ELSE [synced EXCEPT
                              !.rendered = source,
                              !.tileSource = IF nextSource # source THEN nextSource ELSE @,
                              !.stale = FALSE]
    /\ UNCHANGED <<handed, gesture>>
    /\ UNCHANGED <<libVars, table, me, leaderboard, stats, lastDistance, lastScore>>
    /\ UNCHANGED <<variant, mode, home, cur, players, saved, guesses, attempts, attemptOps,
                   failures>>

\* CollectionPlayer.handleSubmitGuess scores userGuess and enters Reviewing:
\* the map is no longer interactive and shows the truth and the guess
MapSubmit(location) ==
    /\ gameMap.mounted
    /\ gameMap.interactive
    /\ gameMap.selectedLocation # <<>>
    /\ gameMap' = [gameMap EXCEPT !.interactive = FALSE,
                                  !.selectedLocation = <<>>,
                                  !.actualLocation = <<location>>,
                                  !.stale = TRUE]
    /\ gesture' = "submit"
    /\ UNCHANGED handed
    /\ UNCHANGED <<libVars, table, me, leaderboard, stats, lastDistance, lastScore>>
    /\ UNCHANGED <<variant, mode, home, cur, players, saved, guesses, attempts, attemptOps,
                   failures>>

\* Next from Reviewing, or Back: CollectionPlayer stops rendering the map
MapUnmount ==
    /\ gameMap.mounted
    /\ gameMap' = NoMap
    /\ handed' = <<>>
    /\ gesture' = "none"
    /\ UNCHANGED <<libVars, table, me, leaderboard, stats, lastDistance, lastScore>>
    /\ UNCHANGED <<variant, mode, home, cur, players, saved, guesses, attempts, attemptOps,
                   failures>>

MapInit ==
    /\ variant \in BOOLEAN
    /\ mode = "COLLECTION_PLAY"
    /\ home = NoHome
    /\ cur = 0
    /\ players = [s \in Sessions |-> NoPlayer]
    /\ saved = <<>>
    /\ guesses = <<>>
    /\ attempts = <<>>
    /\ attemptOps = <<>>
    /\ failures = 0
    /\ SideIdle

MapNext ==
    \/ MapMount
    \/ \E place \in MapPlaces : MapClick(place)
    \/ \E place \in MapPlaces : MapMoveEnd(place)
    \/ MapRender
    \/ \E location \in GameLocations : MapSubmit(location)
    \/ MapUnmount

MapSpec == MapInit /\ [][MapNext]_vars

\* C17: every coordinate handed to onLocationSelect, and so every userGuess
\* that is scored and stored, is in the WGS84 frame: it is the place of the
\* world the user clicked, whichever frame the map was rendering in.
C17_HandedIsGeodetic ==
    /\ handed # <<>> => handed[1].point = handed[1].place
    /\ (gameMap.mounted /\ gameMap.selectedLocation # <<>>) =>
         gameMap.selectedLocation[1].shift = 0

\* no render is pending: the state, the tile layer and the handlers agree
MapSettled ==
    /\ gameMap.mounted
    /\ ~gameMap.stale
    /\ gameMap.tileSource = gameMap.rendered

\* C18: once the user has panned the map centre across the region boundary
\* and stopped, the tile source GameMap.tsx settles on is the one of the
\* centre (in WGS84), not the one of the anchor point.
C18_SettlesOnCentre ==
    (~variant /\ MapSettled /\ gesture = "crossed") =>
        gameMap.tileSource =
            getTileSourceFor(fromMapCoords(gameMap.center, gameMap.tileLayerRef))

\* ------------------------------------------------ pre-answered questions
\* the ids of an instance's pre-answered map (preAnsweredRef.current)
preAnsweredIds(s) == DOMAIN players[s].preAnsweredRef

\* the GuessRecords of a game that saveGuess has inserted: the rows that
\* were in the store before carry HistDistance
InsertedRecords(g) ==
    {i \in 1..Len(guesses) : guesses[i].gameId = g /\ guesses[i].distance # HistDistance}

\* an instance never plays, scores or saves a question of its pre-answered
\* set, and it leaves Historical only forwards (or by being unmounted)
StaysHistorical(s) ==
    /\ (Mounted(s)' /\ players'[s].playState = "playing") =>
          players'[s].currentGame \notin preAnsweredIds(s)'
    /\ \A i \in 1..Len(players'[s].saves) :
          players'[s].saves[i].gameId \notin preAnsweredIds(s)'
    /\ (Mounted(s) /\ players[s].playState = "historical" /\ players'[s] # players[s]) =>
          \/ ~Mounted(s)'
          \/ /\ players'[s].currentIndex = players[s].currentIndex + 1
             /\ players'[s].playState \in {"loading", "historical", "playing"}

\* C19 (first sentence, on its own): a question of the pre-answered set is
\* only ever shown as Historical, is never scored or saved again, and is
\* left only by the forward step to the next index.
C19_PreAnsweredStaysHistorical == [][\A s \in Sessions : StaysHistorical(s)]_vars

\* C19: a question of the pre-answered set only ever enters Historical, is
\* never scored or saved again and is left only forwards; and over a whole
\* playthrough at most one GuessRecord is inserted per challenge id.
C19_HistoricalOnly ==
    [][/\ \A s \in Sessions : StaysHistorical(s)
       /\ \A g \in GameIdSet : Cardinality(InsertedRecords(g)') <= 1]_vars

\* ----------------------------------------------------------------- resume
\* the first index of the collection whose game is not in completedItems
\* (NumGames when every game is)
firstUnrecorded(progress) ==
    LET open == {i \in 0..(NumGames - 1) : ~HasItem(progress.completedItems, GameIdAt(i))}
    IN  IF open = {} THEN NumGames
        ELSE CHOOSE i \in open : \A j \in open : i <= j

\* the continue button of a CollectionHome that found saved, non-completed progress
Resumes == home.hasProgress /\ cur' = cur + 1

\* C20: a player who resumes saved, non-completed progress starts at index
\* completedItems.length, and that index is the first question whose game
\* is not in completedItems.
C20_ResumesAtFirstUnrecorded ==
    [][Resumes =>
         LET p == players'[cur']
         IN  /\ p.currentIndex = Len(p.progressRef.completedItems)
             /\ p.currentIndex = firstUnrecorded(p.progressRef)]_vars

\* ------------------------------------------------------ local persistence
\* C21: whenever the engine is in Playing, Historical or Reviewing, the
\* progress in localStorage equals the in-memory progress, and in Reviewing
\* and Historical it already contains the entry of the current question.
C21_PersistedBeforeVisible ==
    LET p == players[cur]
        \* getCollectionProgress(collectionId, userId), read as init() reads it:
        \* without a stored value the in-memory progress stays the fresh one
        storedProgress == IF saved = <<>> THEN FreshProgress ELSE saved[1]
    IN  Live =>
          /\ p.playState \in {"playing", "historical", "reviewing"} =>
                storedProgress = p.progressRef
          /\ (p.playState \in {"historical", "reviewing"} /\ p.currentIndex < NumGames) =>
                HasItem(storedProgress.completedItems, GameIdAt(p.currentIndex))

\* C21 for the first CollectionPlayer mounted: as long as no earlier
\* instance exists whose requests can still resolve, the claim holds.
C21_FirstInstance ==
    LET p == players[cur]
        storedProgress == IF saved = <<>> THEN FreshProgress ELSE saved[1]
    IN  (Live /\ cur = 1) =>
          /\ p.playState \in {"playing", "historical", "reviewing"} =>
                storedProgress = p.progressRef
          /\ (p.playState \in {"historical", "reviewing"} /\ p.currentIndex < NumGames) =>
                HasItem(storedProgress.completedItems, GameIdAt(p.currentIndex))

\* ------------------------------------------------------ completed progress
\* C22: once the persisted progress has isCompleted = true, no later step
\* resets isCompleted, appends to completedItems or changes totalScore, and
\* a CollectionHome that shows the completed view starts no playthrough.
C22_CompletedStaysCompleted ==
    [][/\ (saved # <<>> /\ saved[1].isCompleted) =>
             \* the step keeps the persisted progress as it is (completedAt aside)
             /\ saved' # <<>>
             /\ saved'[1].isCompleted
             /\ saved'[1].completedItems = saved[1].completedItems
             /\ saved'[1].totalScore = saved[1].totalScore
       /\ (mode = "COLLECTION_HOME" /\ home.isCompleted) => cur' = cur]_vars

MaxPlayedRows == 3

\* collection_attempts in stored order: rows of two users for two collections,
\* with scores and completion times that repeat
PlayedTables ==
    UNION {[1..n -> [collectionId : {1, 2}, userId : {1, 2},
                     totalScore : {100, 200}, completedAt : {1, 2}]] : n \in 0..MaxPlayedRows}

\* .eq('user_id', userId).order('completed_at', { ascending: false })
RECURSIVE myAttempts(_, _, _)
myAttempts(rows, userId, i) ==
    IF i > Len(rows) THEN <<>>
    ELSE LET rest == myAttempts(rows, userId, i + 1)
             r == rows[i]
             k == Cardinality({j \in 1..Len(rest) : rest[j].completedAt > r.completedAt})
         IN  IF r.userId # userId THEN rest
             ELSE SubSeq(rest, 1, k) \o <<r>> \o SubSeq(rest, k + 1, Len(rest))

\* getMyPlayedCollections: the loop filling bestByCollection; a Map keeps the
\* order in which its keys were first set
RECURSIVE bestByCollection(_, _)
bestByCollection(rows, n) ==
    IF n = 0 THEN <<>>
    ELSE LET best == bestByCollection(rows, n - 1)
             a == rows[n]
             at == {i \in 1..Len(best) : best[i].collectionId = a.collectionId}
         IN  IF at = {} THEN Append(best, a)
             ELSE LET i == CHOOSE x \in at : TRUE
                  IN  \* a.total_score > prev.total_score
                      IF a.totalScore > best[i].totalScore
                      THEN [best EXCEPT ![i] = a] ELSE best

\* App.loadMyPlayed: const list = await getMyPlayedCollections(currentUser.id);
\* setMyPlayedList(list)
GetMyPlayedCollections ==
    /\ \E ok \in BOOLEAN, failed \in {"collection_attempts", "collections"} :
         /\ MayFail(ok)
         /\ LET rows == IF ~ok /\ failed = "collection_attempts" THEN <<>>
                         ELSE myAttempts(table, me, 1)
                best == bestByCollection(rows, Len(rows))
                ids == {best[i].collectionId : i \in 1..Len(best)}
                collData == {c \in collections : c.id \in ids}
                \* ids.map(...).filter(Boolean)
                RECURSIVE entries(_)
                entries(i) ==
                    IF i > Len(best) THEN <<>>
                    ELSE IF \E c \in collData : c.id = best[i].collectionId
                         THEN LET c == CHOOSE x \in collData : x.id = best[i].collectionId
                              IN  <<[id |-> c.id, itemCount |-> c.item_count,
                                     myScore |-> best[i].totalScore,
                                     completedAt |-> best[i].completedAt]>> \o entries(i + 1)
                         ELSE entries(i + 1)
            IN  myPlayedList' =
                  <<IF rows = <<>> \/ (~ok /\ failed = "collections") THEN <<>>
                    ELSE entries(1)>>
    /\ UNCHANGED <<table, me, leaderboard, stats, lastDistance, lastScore, mapVars>>
    /\ UNCHANGED <<collections, collection_items, createOps, returned>>
    /\ UNCHANGED <<variant, mode, home, cur, players, saved, guesses, attempts, attemptOps>>

PlayedInit ==
    /\ variant = FALSE
    /\ mode = "COLLECTION_HOME"
    /\ home = FreshHome
    /\ cur = 0
    /\ players = [s \in Sessions |-> NoPlayer]
    /\ saved = <<>>
    /\ guesses = <<>>
    /\ attempts = <<>>
    /\ attemptOps = <<>>
    /\ failures = 0
    /\ table \in PlayedTables
    /\ me = 1
    /\ leaderboard = <<>>
    /\ stats = <<>>
    /\ lastDistance = -1
    /\ lastScore = <<>>
    /\ MapIdle
    /\ myPlayedList = <<>>
    /\ collections = {[id |-> c, item_count |-> NumGames] : c \in {1, 2}}
    /\ collection_items = {}
    /\ createOps = <<>>
    /\ returned = <<>>

PlayedSpec == PlayedInit /\ [][GetMyPlayedCollections]_vars

\* C24: getMyPlayedCollections reduces the user's attempt rows to one entry
\* per collection that carries the user's highest total_score and, when
\* several rows tie on that score, the completedAt of the earliest of them.
C24_EarliestOnTie ==
    LET \* the rows of the user for one collection, and those with the best score
        MyRowsOf(c) ==
            {r \in {table[i] : i \in 1..Len(table)} : r.userId = me /\ r.collectionId = c}
        MyBestRows(c) ==
            {r \in MyRowsOf(c) : \A x \in MyRowsOf(c) : x.totalScore <= r.totalScore}
    IN  \* the list was loaded and both queries succeeded
        (myPlayedList # <<>> /\ failures = 0) =>
          LET list == myPlayedList[1]
          IN  /\ \A c \in {x.id : x \in collections} :
                    Cardinality({i \in 1..Len(list) : list[i].id = c})
                      = IF MyRowsOf(c) = {} THEN 0 ELSE 1
              /\ \A i \in 1..Len(list) :
                    \A r \in MyBestRows(list[i].id) :
                       /\ list[i].myScore = r.totalScore
                       /\ list[i].completedAt <= r.completedAt

\* what the code does: one entry per collection with the highest total_score
\* and, on a tie, the completedAt of the latest of the tied rows
C24_LatestOnTie ==
    LET MyRowsOf(c) ==
            {r \in {table[i] : i \in 1..Len(table)} : r.userId = me /\ r.collectionId = c}
        MyBestRows(c) ==
            {r \in MyRowsOf(c) : \A x \in MyRowsOf(c) : x.totalScore <= r.totalScore}
    IN  (myPlayedList # <<>> /\ failures = 0) =>
          LET list == myPlayedList[1]
          IN  /\ \A c \in {x.id : x \in collections} :
                    Cardinality({i \in 1..Len(list) : list[i].id = c})
                      = IF MyRowsOf(c) = {} THEN 0 ELSE 1
              /\ \A i \in 1..Len(list) :
                    \A r \in MyBestRows(list[i].id) :
                       /\ list[i].myScore = r.totalScore
                       /\ list[i].completedAt >= r.completedAt

\* two rows of the user tie on the best score of a collection, with different
\* completion times, and the list has been loaded
C24_TieLoaded ==
    /\ myPlayedList # <<>>
    /\ failures = 0
    /\ \E i, j \in 1..Len(table) :
          /\ table[i].userId = me /\ table[j].userId = me
          /\ table[i].collectionId = table[j].collectionId
          /\ table[i].totalScore = table[j].totalScore
          /\ table[i].completedAt < table[j].completedAt
          /\ \A k \in 1..Len(table) :
                (table[k].userId = me /\ table[k].collectionId = table[i].collectionId) =>
                   table[k].totalScore <= table[i].totalScore

\* ---------------------------------------------------------- question index
\* C25: within one playthrough the index never decreases and changes only by
\* +1, on Next from reviewing / historical or on skipping a missing challenge;
\* every index is loaded once, when it is entered; and Next activated twice
\* with no question loaded in between advances the index once, not twice.
C25_IndexAdvancesByOne ==
    [][\A s \in Sessions :
         LET p == players[s]
             q == players'[s]
             \* handleNext acted: the index advances from reviewing / historical
             byNext == p.playState \in {"reviewing", "historical"}
             \* loadQuestion skipped a missing challenge: the fetch of the
             \* current question resolved with nothing
             bySkip == /\ p.playState = "loading"
                       /\ \E f \in p.fetches \ q.fetches : f.index = p.currentIndex /\ ~f.hist
         IN  \* the instance stays mounted and its index changes (setCurrentIndex)
             (Mounted(s) /\ Mounted(s)' /\ q.currentIndex # p.currentIndex) =>
                /\ q.currentIndex = p.currentIndex + 1
                /\ byNext \/ bySkip
                \* the effect on currentIndex calls loadQuestion for the new index
                \* in the same step: the question is on its way (loading), or
                \* already shown (historical, or playing from the prefetched
                \* copy), or the index is the collection's length
                /\ \/ q.currentIndex >= NumGames
                   \/ q.playState = "loading"
                   \/ q.playState = "historical"
                   \/ /\ q.playState = "playing"
                      /\ q.currentGame = GameIdAt(q.currentIndex)
                      /\ q.userGuess = NoGuess
                \* Next acts on a question that has been loaded: the index it
                \* leaves is a question of the collection
                /\ byNext => p.currentIndex < NumGames]_vars

\* the same with Next looked at only while the index is inside the collection
C25_InsideCollection ==
    [][\A s \in Sessions :
         LET p == players[s]
             q == players'[s]
             byNext == p.playState \in {"reviewing", "historical"}
             bySkip == /\ p.playState = "loading"
                       /\ \E f \in p.fetches \ q.fetches : f.index = p.currentIndex /\ ~f.hist
         IN  (Mounted(s) /\ Mounted(s)' /\ q.currentIndex # p.currentIndex) =>
                /\ q.currentIndex = p.currentIndex + 1
                /\ byNext \/ bySkip
                /\ \/ q.currentIndex >= NumGames
                   \/ q.playState = "loading"
                   \/ q.playState = "historical"
                   \/ /\ q.playState = "playing"
                      /\ q.currentGame = GameIdAt(q.currentIndex)
                      /\ q.userGuess = NoGuess]_vars

\* Next was activated twice on the last question: the index is past the length
C25_PastTheEnd == Live /\ players[cur].currentIndex > NumGames

\* ----------------------------------------------------------- completion path
\* C26: a playthrough completes once: the completion path (mark completed,
\* submitCollectionAttempt, onComplete) never starts again for an instance
\* whose attempt submission is still in flight, Next pressed again included.
C26_CompletesOnce ==
    [][\A s \in Sessions :
         \* the step runs the completion path of instance s: progress marked
         \* completed and saved, submitCollectionAttempt called
         (/\ Len(attemptOps') = Len(attemptOps) + 1
          /\ attemptOps'[Len(attemptOps')].inst = s
          /\ saved' # <<>>
          /\ saved'[1].isCompleted) =>
            \* no submitCollectionAttempt call of the instance is still pending
            \A k \in 1..Len(attemptOps) : attemptOps[k].inst # s]_vars

\* the same for the revision that completes inside handleNext
C26_CompletesOnceInHandleNext ==
    [][\A s \in Sessions :
         (/\ variant
          /\ Len(attemptOps') = Len(attemptOps) + 1
          /\ attemptOps'[Len(attemptOps')].inst = s
          /\ saved' # <<>>
          /\ saved'[1].isCompleted) =>
            \A k \in 1..Len(attemptOps) : attemptOps[k].inst # s]_vars

\* two submissions of one instance are in flight
C26_TwoInFlight ==
    \E s \in Sessions : Cardinality({k \in 1..Len(attemptOps) : attemptOps[k].inst = s}) > 1

\* ------------------------------- submitCollectionAttempt calls that overlap

\* a caller submits totalScore, whether or not earlier calls have returned
SubmitWhileInFlight(totalScore) ==
    /\ Len(attemptOps) < MaxAttemptOps
    /\ Len(attempts) + Len(attemptOps) < MaxAttemptRows
    /\ attemptOps' = Append(attemptOps, NewAttemptOp(1, totalScore, FALSE))
    /\ UNCHANGED <<sideVars, variant, mode, home, cur, players, saved, guesses, attempts, failures>>

\* the remote store holds no row yet, nothing is mounted
EmptyStore ==
    /\ variant = FALSE
    /\ mode = "COLLECTION_HOME"
    /\ home = FreshHome
    /\ cur = 0
    /\ players = [s \in Sessions |-> NoPlayer]
    /\ saved = <<>>
    /\ guesses = <<>>
    /\ attempts = <<>>
    /\ attemptOps = <<>>
    /\ failures = 0
    /\ SideIdle

RaceNext ==
    \/ \E totalScore \in TotalScores : SubmitWhileInFlight(totalScore)
    \/ \E k \in 1..MaxAttemptOps : AttemptSelectResolve(k)
    \/ \E k \in 1..MaxAttemptOps : AttemptWriteResolve(k)

RaceSpec == EmptyStore /\ [][RaceNext]_vars

\* C27: starting from a store with no attempt row for the pair, after any
\* number of submitCollectionAttempt calls whose requests all succeed -- calls
\* whose existence check and write interleave included -- the store holds at
\* most one row for the pair and its total_score is the maximum submitted:
\* the best stored score never drops and covers every call that returns.
C27_OneRowWithMax ==
    [][LET \* the calls that return in this step
           Returning == {k \in 1..Len(attemptOps) :
                           /\ Len(attemptOps') < Len(attemptOps)
                           /\ \A j \in 1..Len(attemptOps') :
                                 attemptOps'[j] = attemptOps[IF j < k THEN j ELSE j + 1]}
       IN  failures' = 0 =>
             /\ Len(attempts') <= 1
             /\ MaxScore(attempts') >= MaxScore(attempts)
             /\ \A k \in Returning : MaxScore(attempts') >= attemptOps[k].totalScore]_vars

\* two calls found no row and both inserted
C27_TwoRows == failures = 0 /\ Len(attempts) = 2 /\ attemptOps = <<>>

\* ------------------------------------------- completion and the leaderboard
\* C28: the attempt submission has taken effect before completion is
\* signalled: when onComplete fires (no request having failed) the store
\* already holds the player's attempt, so the leaderboard the collection home
\* loads next has a myRecord and the score shown is not the 0 fallback.
C28_StoredBeforeSignal ==
    [][\A s \in Sessions :
         \* onComplete() is called by the live instance s in this step: by
         \* handleNext on the last question or by loadQuestion past the end
         \* (part_002), or by loadQuestion once the submitCollectionAttempt
         \* call it awaits has returned
         (/\ Mounted(s)
          /\ mode' = "COLLECTION_HOME"
          /\ \/ variant /\ (HandleNext(s) \/ InitResolve(s) \/ FetchResolve(s))
             \/ \E k \in 1..Len(attemptOps) :
                   /\ attemptOps[k].inst = s
                   /\ attemptOps[k].awaited
                   /\ AttemptSelectResolve(k) \/ AttemptWriteResolve(k)
          /\ failures' = 0) => attempts' # <<>>]_vars

\* the same for the revision whose loadQuestion awaits the submission
C28_AwaitedSubmission ==
    [][\A s \in Sessions :
         (/\ ~variant
          /\ Mounted(s)
          /\ mode' = "COLLECTION_HOME"
          /\ \E k \in 1..Len(attemptOps) :
                /\ attemptOps[k].inst = s
                /\ attemptOps[k].awaited
                /\ AttemptSelectResolve(k) \/ AttemptWriteResolve(k)
          /\ failures' = 0) => attempts' # <<>>]_vars

\* the collection home of a player who has just completed shows the 0
\* fallback: the leaderboard arrived before the attempt was stored
C28_ZeroShown ==
    /\ failures = 0
    /\ cur = 1
    /\ mode = "COLLECTION_HOME"
    /\ home.phase = "ready"
    /\ home.isCompleted
    /\ home.myRecord = -1
    /\ attemptOps # <<>>

\* ------------------------------------------------ a player who keeps playing

\* the steps of a playthrough whose player does not back out
PlayOnNext ==
    \/ HomeLoad
    \/ HomeLeaderboard
    \/ OnStartPlay
    \/ \E s \in Sessions : InitResolve(s)
    \/ \E s \in Sessions : FetchResolve(s)
    \/ \E s \in Sessions : PrefetchResolve(s)
    \/ \E s \in Sessions : SelectLocation(s)
    \/ \E s \in Sessions : HandleSubmitGuess(s)
    \/ \E s \in Sessions : SaveGuessResolve(s)
    \/ \E s \in Sessions : HandleNext(s)
    \/ \E k \in 1..(MaxAttemptOps + MaxSessions) : AttemptSelectResolve(k)
    \/ \E k \in 1..(MaxAttemptOps + MaxSessions) : AttemptWriteResolve(k)

\* every remote read and write resolves, successfully or not; the user places
\* a pin and submits in playing, presses Next in reviewing / historical
PlayOnSpec ==
    /\ Init
    /\ [][PlayOnNext]_vars
    /\ WF_vars(HomeLoad)
    /\ WF_vars(HomeLeaderboard)
    /\ \A s \in Sessions :
          /\ WF_vars(InitResolve(s))
          /\ WF_vars(FetchResolve(s))
          /\ WF_vars(PrefetchResolve(s))
          /\ WF_vars(SaveGuessResolve(s))
          /\ WF_vars(SelectLocation(s))
          /\ WF_vars(HandleSubmitGuess(s))
          /\ WF_vars(HandleNext(s))
    /\ \A k \in 1..(MaxAttemptOps + MaxSessions) :
          /\ WF_vars(AttemptSelectResolve(k))
          /\ WF_vars(AttemptWriteResolve(k))

\* C29: under fairness every playthrough of the collection eventually reaches
\* completion (the persisted progress is completed) and calls onComplete,
\* which returns the user to the collection home; it never stays in
\* initializing or loading forever, also when challenges fail to load.
C29_EventuallyCompletes ==
    \A s \in Sessions :
       Mounted(s) ~> (mode = "COLLECTION_HOME" /\ saved # <<>> /\ saved[1].isCompleted)

\* every playthrough eventually calls onComplete: no view of the player,
\* initializing and loading included, lasts forever
C29_EventuallyLeaves ==
    \A s \in Sessions : Mounted(s) ~> mode = "COLLECTION_HOME"

\* the same as C29 for components/CollectionPlayer.tsx
C29_NamedRevision ==
    \A s \in Sessions :
       (~variant /\ Mounted(s)) ~>
          (mode = "COLLECTION_HOME" /\ saved # <<>> /\ saved[1].isCompleted)

\* ------------------------------------------ createCollection, getCollection

MaxCreates == 2

MaxReads == 1

CallsOf(call) == {i \in 1..Len(returned) : returned[i].call = call}

\* CollectionCreator.handlePublish: createCollection(...) up to its first insert;
\* generateId() gives every call an id of its own
HandlePublish(ids) ==
    /\ createOps = <<>>
    /\ Cardinality(CallsOf("createCollection")) < MaxCreates
    /\ createOps' = <<[id |-> Cardinality(CallsOf("createCollection")) + 1,
                       gameIds |-> ids, phase |-> "collections"]>>
    /\ UNCHANGED <<myPlayedList, collections, collection_items, returned, failures>>
    /\ UNCHANGED <<table, me, leaderboard, stats, lastDistance, lastScore, mapVars>>
    /\ UNCHANGED <<variant, mode, home, cur, players, saved, guesses, attempts, attemptOps>>

\* createCollection: item rows, order_index = position in gameIds
itemsOf(id, ids) ==
    {[collection_id |-> id, game_id |-> ids[i], order_index |-> i - 1] : i \in 1..Len(ids)}

\* createCollection: the insert into collections resolves
CollectionInsertResolve ==
    /\ createOps # <<>>
    /\ createOps[1].phase = "collections"
    /\ \E ok \in BOOLEAN :
         /\ MayFail(ok)
         /\ LET op == createOps[1]
            IN  IF ok
                THEN /\ collections' = collections \cup
                                         {[id |-> op.id, item_count |-> Len(op.gameIds)]}
                     /\ createOps' = <<[op EXCEPT !.phase = "collection_items"]>>
                     /\ returned' = returned
                ELSE /\ collections' = collections
                     /\ createOps' = <<>>
                     /\ returned' = Append(returned,
                                       [call |-> "createCollection", id |-> op.id,
                                        gameIds |-> op.gameIds, value |-> <<>>])
    /\ UNCHANGED <<myPlayedList, collection_items>>
    /\ UNCHANGED <<table, me, leaderboard, stats, lastDistance, lastScore, mapVars>>
    /\ UNCHANGED <<variant, mode, home, cur, players, saved, guesses, attempts, attemptOps>>

\* createCollection: the insert into collection_items resolves
ItemsInsertResolve ==
    /\ createOps # <<>>
    /\ createOps[1].phase = "collection_items"
    /\ \E ok \in BOOLEAN :
         /\ MayFail(ok)
         /\ LET op == createOps[1]
            IN  /\ collection_items' = IF ok THEN collection_items \cup itemsOf(op.id, op.gameIds)
                                       ELSE collection_items
                /\ returned' = Append(returned,
                                  [call |-> "createCollection", id |-> op.id,
                                   gameIds |-> op.gameIds,
                                   value |-> IF ok THEN <<[id |-> op.id,
                                                           itemCount |-> Len(op.gameIds)]>>
                                             ELSE <<>>])
                /\ createOps' = <<>>
    /\ UNCHANGED <<myPlayedList, collections>>
    /\ UNCHANGED <<table, me, leaderboard, stats, lastDistance, lastScore, mapVars>>
    /\ UNCHANGED <<variant, mode, home, cur, players, saved, guesses, attempts, attemptOps>>

\* CollectionHome.load: const result = await getCollection(collectionId)
GetCollection(collectionId) ==
    /\ Cardinality(CallsOf("getCollection")) < MaxReads
    /\ \E ok \in BOOLEAN :
         /\ MayFail(ok)
         /\ LET collData == {c \in collections : c.id = collectionId}
                \* .eq('collection_id', collectionId).order('order_index', asc)
                rows == {r \in collection_items : r.collection_id = collectionId}
                rank(r) == Cardinality({x \in rows : x.order_index < r.order_index})
                itemsData == [j \in 1..Cardinality(rows) |->
                                (CHOOSE r \in rows : rank(r) = j - 1).game_id]
            IN  returned' = Append(returned,
                              [call |-> "getCollection", id |-> collectionId,
                               value |-> IF ~ok \/ collData = {} THEN <<>>
                                         ELSE <<[id |-> collectionId,
                                                 itemCount |->
                                                    (CHOOSE c \in collData : TRUE).item_count,
                                                 gameIds |-> itemsData]>>])
    /\ UNCHANGED <<myPlayedList, collections, collection_items, createOps>>
    /\ UNCHANGED <<table, me, leaderboard, stats, lastDistance, lastScore, mapVars>>
    /\ UNCHANGED <<variant, mode, home, cur, players, saved, guesses, attempts, attemptOps>>

LibraryNext ==
    \* CollectionCreator.selectedIds: at least one game, none twice, in the
    \* order they were picked
    \/ \E ids \in {x \in UNION {[1..n -> GameIdSet] : n \in 1..NumGames} :
                      \A i, j \in 1..Len(x) : i # j => x[i] # x[j]} : HandlePublish(ids)
    \/ CollectionInsertResolve
    \/ ItemsInsertResolve
    \/ \E collectionId \in 1..MaxCreates : GetCollection(collectionId)

LibrarySpec == EmptyStore /\ [][LibraryNext]_vars

\* C30: createCollection is all-or-nothing with respect to the store: when it
\* has returned null no collection row for the new id remains, and for every
\* stored collection item_count equals the number of its collection_items
\* rows, whose order_index values are 0..n-1 in the order the ids were given,
\* so getCollection returns the ids in creation order.
C30_AllOrNothing ==
    LET \* the ids the collection was created from
        GivenIds(id) ==
            returned[CHOOSE i \in CallsOf("createCollection") : returned[i].id = id].gameIds
    IN  createOps = <<>> =>
          \* the calls that returned null left no collection row
          /\ \A i \in CallsOf("createCollection") :
                returned[i].value = <<>> => ~\E c \in collections : c.id = returned[i].id
          \* every stored collection has item_count rows, numbered in the given order
          /\ \A c \in collections :
                /\ Cardinality({r \in collection_items : r.collection_id = c.id}) = c.item_count
                /\ {r \in collection_items : r.collection_id = c.id}
                      = itemsOf(c.id, GivenIds(c.id))
          \* getCollection returned the ids in creation order
          /\ \A i \in CallsOf("getCollection") :
                returned[i].value # <<>> =>
                   /\ returned[i].value[1].gameIds = GivenIds(returned[i].id)
                   /\ returned[i].value[1].itemCount = Len(returned[i].value[1].gameIds)

\* when both inserts of every call succeeded: the stored collections are
\* whole, and a read returned the ids in creation order unless it came
\* between the two inserts, where it found the collection without its items
C30_WhenInsertsSucceed ==
    LET GivenIds(id) ==
            returned[CHOOSE i \in CallsOf("createCollection") : returned[i].id = id].gameIds
    IN  (createOps = <<>> /\ \A i \in CallsOf("createCollection") : returned[i].value # <<>>) =>
          /\ \A c \in collections :
                /\ Cardinality({r \in collection_items : r.collection_id = c.id}) = c.item_count
                /\ {r \in collection_items : r.collection_id = c.id}
                      = itemsOf(c.id, GivenIds(c.id))
          /\ \A i \in CallsOf("getCollection") :
                returned[i].value # <<>> =>
                   returned[i].value[1].gameIds \in {GivenIds(returned[i].id), <<>>}

\* a read between the two inserts of a call that succeeded found the
\* collection with item_count 1 and no game ids
C30_PartialRead ==
    /\ failures = 0
    /\ \E i \in CallsOf("getCollection") :
          /\ returned[i].value # <<>>
          /\ returned[i].value[1].gameIds = <<>>

\* createCollection returned null and its collection row is in the store
C30_RowLeftBehind ==
    /\ createOps = <<>>
    /\ \E i \in CallsOf("createCollection") :
          /\ returned[i].value = <<>>
          /\ \E c \in collections : c.id = returned[i].id

\* a collection of two games was created and read back in creation order
C30_ReadBack ==
    \E i \in CallsOf("getCollection") :
       /\ returned[i].value # <<>>
       /\ Len(returned[i].value[1].gameIds) = 2
       /\ returned[i].value[1].gameIds[1] > returned[i].value[1].gameIds[2]

====
